---- MODULE Spec2Model ----
(***************************************************************************)
(* Model of the fraud-risk scoring core of albitros: the billing code      *)
(* reference (lib/billing/codes.ts), the claim processor                   *)
(* (lib/claims/processor.ts) behind the claims route (app/api/claims),     *)
(* the risk scoring engine and the upcoding detector.                      *)
(*                                                                         *)
(* Conventions.  A JavaScript value that may be absent (undefined / null)  *)
(* is a sequence of length 0 or 1: None or Some(v).  Time is counted in    *)
(* whole days; money in whole currency units.                              *)
(***************************************************************************)
EXTENDS Integers, Sequences, FiniteSets, TLC

VARIABLES
    now,            \* Date.now(), in days
    blockScoped,    \* the build keeps `const` block scoped (ES2015+ output)
    claims,         \* prisma.claim: sequence of rows, id = index
    claimLineItems, \* prisma.claimLineItem rows
    fraudAlerts,    \* prisma.fraudAlert rows
    requests,       \* number of POST /api/claims calls handled so far
    last,           \* what the last POST /api/claims call did and answered
    fnArgs,         \* the arguments of the function under evaluation
    fnResult,       \* its result, None until it is evaluated
    batch,          \* where a running batchRiskScoring call stands
    calls,          \* the processClaim calls running side by side
    rateLimitStore, \* the module's rateLimitStore: key -> {count, resetTime}
    limited         \* what the rate limiter calls did since each entry was made

vars == <<now, blockScoped, claims, claimLineItems, fraudAlerts, requests, last,
          fnArgs, fnResult, batch, calls, rateLimitStore, limited>>

None == <<>>
Some(v) == <<v>>

\* no batchRiskScoring call is running
NoBatch == [pc |-> "none", i |-> 0, promises |-> <<>>, results |-> <<>>]

\* no processClaim calls run side by side
NoCalls == <<>>

\* const rateLimitStore: RateLimitStore = {}
EmptyStore == [k \in {} |-> 0]

\* no rate limiter call has been made
NoLimited == [calls |-> 0, successes |-> [k \in {} |-> 0], last |-> None]

Min(a, b) == IF a < b THEN a ELSE b
Max(a, b) == IF a > b THEN a ELSE b

Includes(seq, x) == \E i \in 1..Len(seq) : seq[i] = x

RECURSIVE SumSeq(_)
SumSeq(s) == IF s = <<>> THEN 0 ELSE Head(s) + SumSeq(Tail(s))

(***************************************************************************)
(* Bounds of the model.                                                    *)
(***************************************************************************)
MaxRequests == 2        \* POST /api/claims calls in one behaviour
MaxDay == 62            \* the clock stops here
ScoreDenominator == 2   \* scores are tried in steps of 1/ScoreDenominator
FrequencySteps == 5     \* frequencies are tried in steps of 1/FrequencySteps
MaxCodes == 4           \* longest code list handed to the validator
MaxVolumeClaims == 3    \* most claims of one provider in the volume check

(***************************************************************************)
(* lib/billing/codes.ts                                                    *)
(***************************************************************************)
CPT_CODES ==
    [c \in {"99213", "99214", "99215", "43239", "80053", "71020"} |->
        CASE c = "99213" -> [typicalMax |-> 95,  bundledCodes |-> <<>>,
                             unbundlingRisk |-> "LOW"]
          [] c = "99214" -> [typicalMax |-> 130, bundledCodes |-> <<>>,
                             unbundlingRisk |-> "MEDIUM"]
          [] c = "99215" -> [typicalMax |-> 180, bundledCodes |-> <<>>,
                             unbundlingRisk |-> "HIGH"]
          [] c = "43239" -> [typicalMax |-> 550, bundledCodes |-> <<"43235", "43236">>,
                             unbundlingRisk |-> "HIGH"]
          [] c = "80053" -> [typicalMax |-> 60,  bundledCodes |-> <<"80048", "80076">>,
                             unbundlingRisk |-> "MEDIUM"]
          [] c = "71020" -> [typicalMax |-> 80,  bundledCodes |-> <<"71010">>,
                             unbundlingRisk |-> "LOW"]]

HIGH_RISK_COMBINATIONS ==
    << [codes |-> <<"99213", "99214">>, description |-> "Multiple E&M codes for same encounter",
        riskScore |-> 85],
       [codes |-> <<"43239", "43235", "43236">>, description |-> "Unbundling endoscopy procedures",
        riskScore |-> 90],
       [codes |-> <<"80053", "80048">>, description |-> "Duplicate metabolic panels",
        riskScore |-> 75] >>

getBundlingRiskWeight(risk) ==
    CASE risk = "HIGH" -> 40
      [] risk = "MEDIUM" -> 25
      [] risk = "LOW" -> 10
      [] OTHER -> 0

\* [code, bundledCode].sort().join('-'): the key of the unordered pair
CombinationKey(code, bundledCode) == {code, bundledCode}

\* the inner loop of checkUnbundlingRisk over cptCode.bundlingRules.bundledCodes
RECURSIVE BundledScan(_, _, _, _)
BundledScan(codes, code, j, acc) ==
    LET bundled == CPT_CODES[code].bundledCodes IN
    IF j > Len(bundled) THEN acc
    ELSE LET key == CombinationKey(code, bundled[j]) IN
         IF Includes(codes, bundled[j]) /\ key \notin acc.checked
         THEN BundledScan(codes, code, j + 1,
                [riskScore |-> acc.riskScore
                                 + getBundlingRiskWeight(CPT_CODES[code].unbundlingRisk),
                 checked |-> acc.checked \cup {key}])
         ELSE BundledScan(codes, code, j + 1, acc)

\* the outer loop of checkUnbundlingRisk over the submitted codes
RECURSIVE UnbundlingScan(_, _, _)
UnbundlingScan(codes, i, acc) ==
    IF i > Len(codes) THEN acc
    ELSE IF codes[i] \notin DOMAIN CPT_CODES
         THEN UnbundlingScan(codes, i + 1, acc)
         ELSE UnbundlingScan(codes, i + 1, BundledScan(codes, codes[i], 1, acc))

\* checkUnbundlingRisk looking at the bundling rules of the first code only
checkUnbundlingRiskOfFirst(codes) ==
    IF codes # <<>> /\ Head(codes) \in DOMAIN CPT_CODES
    THEN Min(BundledScan(codes, Head(codes), 1, [riskScore |-> 0, checked |-> {}]).riskScore,
             100)
    ELSE 0

checkUnbundlingRisk(codes) ==
    Min(UnbundlingScan(codes, 1, [riskScore |-> 0, checked |-> {}]).riskScore, 100)

\* the loop of validateCodeCombination over HIGH_RISK_COMBINATIONS
RECURSIVE HighRiskScan(_, _, _)
HighRiskScan(codes, k, acc) ==
    IF k > Len(HIGH_RISK_COMBINATIONS) THEN acc
    ELSE LET combination == HIGH_RISK_COMBINATIONS[k]
             hasAllCodes == \A n \in 1..Len(combination.codes) :
                               Includes(codes, combination.codes[n])
         IN IF hasAllCodes
            THEN HighRiskScan(codes, k + 1,
                   [warnings |-> Append(acc.warnings, combination.description),
                    riskScore |-> Max(acc.riskScore, combination.riskScore)])
            ELSE HighRiskScan(codes, k + 1, acc)

validateCodeCombination(codes) ==
    LET high == HighRiskScan(codes, 1, [warnings |-> <<>>, riskScore |-> 0])
        unbundlingRisk == checkUnbundlingRisk(codes)
        warnings == IF unbundlingRisk > 50
                    THEN Append(high.warnings, "High unbundling risk detected")
                    ELSE high.warnings
        riskScore == IF unbundlingRisk > 50
                     THEN Max(high.riskScore, unbundlingRisk)
                     ELSE high.riskScore
    IN [isValid |-> Len(warnings) = 0, warnings |-> warnings, riskScore |-> riskScore]


(***************************************************************************)
(* lib/claims/processor.ts: ClaimProcessor                                 *)
(***************************************************************************)
DuplicateWindowDays == 30
ProviderWindowDays == 90

\* reading a property the object may not have: alert.riskScore
Field(obj, name) == IF name \in DOMAIN obj THEN Some(obj[name]) ELSE None

\* JavaScript's  v > n  for a value that may be undefined: undefined > n is false
JsGreater(v, n) == v # None /\ v[1] > n

\* item.modifiers[i - 1]
ModifierAt(modifiers, i) == IF i <= Len(modifiers) THEN modifiers[i] ELSE "undefined"

ClaimProcessor_determineRiskLevel(score) ==
    IF score >= 80 THEN "CRITICAL"
    ELSE IF score >= 60 THEN "HIGH"
    ELSE IF score >= 40 THEN "MEDIUM"
    ELSE "LOW"

\* submission.lineItems.reduce((sum, item) => sum + item.unitCost * item.units, 0)
BilledAmount(lineItems) ==
    SumSeq([i \in 1..Len(lineItems) |-> lineItems[i].unitCost * lineItems[i].units])

\* the row prisma.claim.create inserts
NewClaim(id, submission, t) ==
    [id |-> id,
     patientId |-> submission.patientId,
     providerId |-> submission.providerId,
     serviceDate |-> submission.serviceDate,
     billedAmount |-> BilledAmount(submission.lineItems),
     createdAt |-> t,
     status |-> "PENDING",
     riskScore |-> None,
     riskLevel |-> None,
     fraudTypes |-> <<>>,
     isFlagged |-> FALSE]

\* the row prisma.claimLineItem.create inserts for one submitted item
NewLineItem(claimId, item) ==
    [claimId |-> claimId,
     procedureCode |-> item.procedureCode,
     modifier1 |-> ModifierAt(item.modifiers, 1),
     modifier2 |-> ModifierAt(item.modifiers, 2),
     modifier3 |-> ModifierAt(item.modifiers, 3),
     modifier4 |-> ModifierAt(item.modifiers, 4),
     units |-> item.units,
     unitCost |-> item.unitCost,
     totalCost |-> item.unitCost * item.units]

ClaimProcessor_detectUpcoding(claim, lineItems) ==
    LET IsHighLevel(item) ==
            item.procedureCode \in {"99214", "99215", "99205", "99204", "99203"}
        Has59(item) == item.modifier1 = "59" \/ item.modifier2 = "59"
        IsExcessive(item) ==
            /\ item.procedureCode \in {"99213", "99214", "99215"}
            /\ item.procedureCode \in DOMAIN CPT_CODES
            /\ item.totalCost > CPT_CODES[item.procedureCode].typicalMax
        rows == 1..Len(lineItems)
        highLevelCodes == {i \in rows : IsHighLevel(lineItems[i])}
        modifier59Abuse == {i \in rows : Has59(lineItems[i])}
        excessive == {i \in rows : IsExcessive(lineItems[i])}
        riskScore ==
            (IF Cardinality(highLevelCodes) > 0 /\ Cardinality(highLevelCodes) = Len(lineItems)
             THEN 40 ELSE 0)
            + (IF Cardinality(modifier59Abuse) > 2 THEN 30 ELSE 0)
            + 25 * Cardinality(excessive)
    IN [type |-> "UPDATING",
        severity |-> ClaimProcessor_determineRiskLevel(riskScore),
        confidence |-> Min(riskScore, 100),
        description |-> "Potential upcoding detected"]

ClaimProcessor_detectUnbundling(lineItems) ==
    LET procedureCodes == [i \in 1..Len(lineItems) |-> lineItems[i].procedureCode]
        validation == validateCodeCombination(procedureCodes)
    IN IF validation.riskScore > 50
       THEN [type |-> "UNBUNDLING",
             severity |-> ClaimProcessor_determineRiskLevel(validation.riskScore),
             confidence |-> validation.riskScore,
             description |-> "Potential unbundling of procedures"]
       ELSE [type |-> "UNBUNDLING", severity |-> "LOW", confidence |-> 0,
             description |-> "No unbundling detected"]

\* provider rows of the store: whether latitude and longitude are set
ProviderHasLocation(providerId) == providerId = "pr1"

checkGeographicAnomalies(claim) == 0
checkTimeConflicts(claim) == 0

(***************************************************************************)
(* detectPhantomBilling declares `const geographicRisk` inside the block   *)
(* of the location test and reads `geographicRisk` again, outside that     *)
(* block, when it builds `details` (line 298).  What that read does        *)
(* depends on the build: output that keeps `const` block scoped throws a   *)
(* ReferenceError there on every call; output that lowers `const` to a     *)
(* function-scoped `var` reads the value, or undefined.  keepsBlockScope   *)
(* says which build runs.                                                  *)
(***************************************************************************)
ClaimProcessor_detectPhantomBilling(claim, lineItems, keepsBlockScope) ==
    LET dailyVolume == SumSeq([i \in 1..Len(lineItems) |-> lineItems[i].units])
        located == ProviderHasLocation(claim.providerId)
        geographicRisk == IF located THEN Some(checkGeographicAnomalies(claim)) ELSE None
        timeConflict == checkTimeConflicts(claim)
        riskScore ==
            (IF dailyVolume > 50 THEN 60 ELSE 0)
            + (IF located THEN geographicRisk[1] ELSE 0)
            + (IF timeConflict > 40 THEN timeConflict ELSE 0)
    IN IF keepsBlockScope
       THEN [threw |-> TRUE, alert |-> None]
       ELSE [threw |-> FALSE,
             alert |-> Some([type |-> "PHANTOM_BILLING",
                             severity |-> ClaimProcessor_determineRiskLevel(riskScore),
                             confidence |-> Min(riskScore, 100),
                             description |-> "Potential phantom billing detected"])]

\* DuplicateRows without the createdAt filter
DuplicateRowsAnyAge(claim, store, t) ==
    {i \in 1..Len(store) :
        /\ store[i].providerId = claim.providerId
        /\ store[i].patientId = claim.patientId
        /\ store[i].serviceDate = claim.serviceDate
        /\ store[i].billedAmount = claim.billedAmount
        /\ store[i].id # claim.id}

\* the rows the findMany of detectDuplicateClaims returns, queried at time t
DuplicateRows(claim, store, t) ==
    {i \in 1..Len(store) :
        /\ store[i].providerId = claim.providerId
        /\ store[i].patientId = claim.patientId
        /\ store[i].serviceDate = claim.serviceDate
        /\ store[i].billedAmount = claim.billedAmount
        /\ store[i].createdAt >= t - DuplicateWindowDays
        /\ store[i].id # claim.id}

ClaimProcessor_detectDuplicateClaims(claim, store, t) ==
    IF Cardinality(DuplicateRows(claim, store, t)) > 0
    THEN [type |-> "DUPLICATE_CLAIM", severity |-> "HIGH", confidence |-> 90,
          description |-> "Duplicate claim detected"]
    ELSE [type |-> "DUPLICATE_CLAIM", severity |-> "LOW", confidence |-> 0,
          description |-> "No duplicates found"]

analyzeProviderPatterns(providerId, store, t) ==
    LET recent == {i \in 1..Len(store) :
                      /\ store[i].providerId = providerId
                      /\ store[i].createdAt >= t - ProviderWindowDays}
        flaggedClaims == Cardinality({i \in recent : store[i].isFlagged})
        total == Cardinality(recent)
    IN IF total = 0 THEN 0
       ELSE IF flaggedClaims * 10 > 3 * total THEN 50     \* flagRate > 0.3
       ELSE IF flaggedClaims * 10 > 2 * total THEN 30     \* flagRate > 0.2
       ELSE IF flaggedClaims * 10 > total THEN 15         \* flagRate > 0.1
       ELSE 0

RECURSIVE AlertRecommendations(_, _)
AlertRecommendations(alerts, i) ==
    IF i > Len(alerts) THEN <<>>
    ELSE (CASE alerts[i].type = "UPDATING" ->
                 <<"Review medical record documentation", "Verify time spent with patient">>
            [] alerts[i].type = "UNBUNDLING" ->
                 <<"Check for appropriate use of modifier 59", "Review bundling rules">>
            [] alerts[i].type = "PHANTOM_BILLING" ->
                 <<"Verify patient identity and service location", "Check provider schedule">>
            [] alerts[i].type = "DUPLICATE_CLAIM" ->
                 <<"Review claim submission history", "Check for system errors">>
            [] OTHER -> <<>>)
         \o AlertRecommendations(alerts, i + 1)

ClaimProcessor_generateRecommendations(alerts, riskLevel) ==
    (CASE riskLevel = "CRITICAL" ->
            <<"Immediate investigation required", "Consider payment suspension",
              "SIU team notification">>
       [] riskLevel = "HIGH" ->
            <<"Manual review required", "Additional documentation requested">>
       [] riskLevel = "MEDIUM" ->
            <<"Enhanced monitoring recommended", "Verify provider credentials">>
       [] OTHER -> <<>>)
    \o AlertRecommendations(alerts, 1)

\* one detector step of analyzeClaim:
\*   if (analysis.riskScore > 0) { alerts.push(analysis); totalRiskScore = Math.max(...);
\*                                 detectedFraudTypes.push(fraudType) }
\* The detectors return a FraudAlert, which has a confidence and no riskScore.
Register(acc, analysis, fraudType) ==
    IF JsGreater(Field(analysis, "riskScore"), 0)
    THEN [alerts |-> Append(acc.alerts, analysis),
          totalRiskScore |-> Max(acc.totalRiskScore, analysis.confidence),
          detectedFraudTypes |-> Append(acc.detectedFraudTypes, fraudType)]
    ELSE acc

\* Approved with the score gate off by one (<= for <)
ApprovedInclusive(totalRiskScore, alerts) == totalRiskScore <= 30 /\ Len(alerts) = 0

\* const approved = totalRiskScore < 30 && alerts.length === 0
Approved(totalRiskScore, alerts) == totalRiskScore < 30 /\ Len(alerts) = 0

\* analyzeClaim, run at time t against the store; `trace` keeps what each
\* detector returned, in the order the detectors ran
analyzeClaim(claim, lineItems, store, t, keepsBlockScope) ==
    LET upcodingAnalysis == ClaimProcessor_detectUpcoding(claim, lineItems)
        acc1 == Register([alerts |-> <<>>, totalRiskScore |-> 0,
                          detectedFraudTypes |-> <<>>], upcodingAnalysis, "UPDATING")
        unbundlingAnalysis == ClaimProcessor_detectUnbundling(lineItems)
        acc2 == Register(acc1, unbundlingAnalysis, "UNBUNDLING")
        phantom == ClaimProcessor_detectPhantomBilling(claim, lineItems, keepsBlockScope)
    IN IF phantom.threw
       THEN [threw |-> TRUE, result |-> None,
             trace |-> [upcoding |-> Some(upcodingAnalysis),
                        unbundling |-> Some(unbundlingAnalysis),
                        phantom |-> None, duplicate |-> None, providerRisk |-> None]]
       ELSE
         LET phantomAnalysis == phantom.alert[1]
             acc3 == Register(acc2, phantomAnalysis, "PHANTOM_BILLING")
             duplicateAnalysis == ClaimProcessor_detectDuplicateClaims(claim, store, t)
             acc4 == Register(acc3, duplicateAnalysis, "DUPLICATE_CLAIM")
             providerRisk == analyzeProviderPatterns(claim.providerId, store, t)
             totalRiskScore == Max(acc4.totalRiskScore, providerRisk)
             riskLevel == ClaimProcessor_determineRiskLevel(totalRiskScore)
         IN [threw |-> FALSE,
             result |-> Some([riskScore |-> totalRiskScore,
                              riskLevel |-> riskLevel,
                              fraudTypes |-> acc4.detectedFraudTypes,
                              alerts |-> acc4.alerts,
                              recommendations |->
                                  ClaimProcessor_generateRecommendations(acc4.alerts, riskLevel),
                              approved |-> Approved(totalRiskScore, acc4.alerts)]),
             trace |-> [upcoding |-> Some(upcodingAnalysis),
                        unbundling |-> Some(unbundlingAnalysis),
                        phantom |-> Some(phantomAnalysis),
                        duplicate |-> Some(duplicateAnalysis),
                        providerRisk |-> Some(providerRisk)]]

\* the update with the flag raised from the approval threshold on
UpdatedClaimFlaggedFrom30(claim, analysis) ==
    [claim EXCEPT !.riskScore = Some(analysis.riskScore),
                  !.riskLevel = Some(analysis.riskLevel),
                  !.fraudTypes = analysis.fraudTypes,
                  !.isFlagged = analysis.riskScore >= 30,
                  !.status = IF analysis.approved THEN "APPROVED" ELSE "FLAGGED_FOR_FRAUD"]

\* the prisma.claim.update of processClaim
UpdatedClaim(claim, analysis) ==
    [claim EXCEPT !.riskScore = Some(analysis.riskScore),
                  !.riskLevel = Some(analysis.riskLevel),
                  !.fraudTypes = analysis.fraudTypes,
                  !.isFlagged = analysis.riskScore > 70,
                  !.status = IF analysis.approved THEN "APPROVED" ELSE "FLAGGED_FOR_FRAUD"]

\* the rows prisma.fraudAlert.create inserts
NewFraudAlerts(claim, alerts) ==
    [i \in 1..Len(alerts) |->
        [claimId |-> claim.id, providerId |-> claim.providerId,
         alertType |-> alerts[i].type, severity |-> alerts[i].severity,
         confidence |-> alerts[i].confidence]]

\* processClaim(submission) at time t: the stores it leaves and what it gives back
processClaim(submission, store, items, alertRows, t, keepsBlockScope) ==
    LET claim == NewClaim(Len(store) + 1, submission, t)
        store1 == Append(store, claim)
        lineItems == [i \in 1..Len(submission.lineItems) |->
                         NewLineItem(claim.id, submission.lineItems[i])]
        items1 == items \o lineItems
        analysis == analyzeClaim(claim, lineItems, store1, t, keepsBlockScope)
    IN IF analysis.threw
       THEN [threw |-> TRUE, claimId |-> claim.id, result |-> None, trace |-> analysis.trace,
             claims |-> store1, claimLineItems |-> items1, fraudAlerts |-> alertRows]
       ELSE [threw |-> FALSE, claimId |-> claim.id, result |-> analysis.result,
             trace |-> analysis.trace,
             claims |-> [store1 EXCEPT ![claim.id] = UpdatedClaim(claim, analysis.result[1])],
             claimLineItems |-> items1,
             fraudAlerts |-> alertRows \o NewFraudAlerts(claim, analysis.result[1].alerts)]


(***************************************************************************)
(* app/api/claims/route.ts: POST                                           *)
(***************************************************************************)
Providers == {"pr1", "pr2"}
Patients == {"pt1", "pt2"}
ServiceDates == {"2024-03-01"}

Item(code, modifiers, units, unitCost) ==
    [procedureCode |-> code, modifiers |-> modifiers, units |-> units, unitCost |-> unitCost]

CleanItems == << Item("99213", <<>>, 1, 75) >>

\* the line-item lists a request may carry
LineItemLists ==
    { CleanItems,
      << Item("99215", <<>>, 1, 150) >>,
      << Item("43239", <<"59">>, 1, 450), Item("43235", <<>>, 1, 300),
         Item("43236", <<>>, 1, 300) >>,
      << Item("99213", <<"25", "59">>, 60, 75) >> }

\* body.lineItems of the parsed JSON: an array, absent, or some other value
ArrayOf(items) == [kind |-> "array", items |-> items]
NoLineItems == [kind |-> "undefined", items |-> <<>>]
NotAnArray == [kind |-> "object", items |-> <<>>]

Truthy(lineItems) == lineItems.kind # "undefined"
IsArray(lineItems) == lineItems.kind = "array"

Body(patientId, providerId, serviceDate, lineItems) ==
    [patientId |-> patientId, providerId |-> providerId, serviceDate |-> serviceDate,
     lineItems |-> lineItems]

\* every list for the first patient, the plain office visit for the others
ValidBodies ==
    { Body(Some("pt1"), Some(pr), Some(d), ArrayOf(l)) :
         pr \in Providers, d \in ServiceDates, l \in LineItemLists }
    \cup
    { Body(Some(pt), Some(pr), Some(d), ArrayOf(CleanItems)) :
         pt \in Patients, pr \in Providers, d \in ServiceDates }

EmptyBody == Body(Some("pt1"), Some("pr1"), Some("2024-03-01"), ArrayOf(<<>>))

MalformedBodies ==
    { EmptyBody,
      Body(Some("pt1"), Some("pr1"), Some("2024-03-01"), NoLineItems),
      Body(Some("pt1"), Some("pr1"), Some("2024-03-01"), NotAnArray),
      Body(None, Some("pr1"), Some("2024-03-01"), ArrayOf(CleanItems)) }

\* the requests: any body with a good token, the empty submission without one
Requests ==
    { [token |-> "valid", body |-> b] : b \in ValidBodies \cup MalformedBodies }
    \cup { [token |-> t, body |-> EmptyBody] : t \in {"none", "invalid"} }

NoTrace == [upcoding |-> None, unbundling |-> None, phantom |-> None,
            duplicate |-> None, providerRisk |-> None]

Response(status, error, at, request) ==
    [status |-> status, error |-> error, at |-> at, request |-> request,
     claimId |-> None, result |-> None, trace |-> NoTrace]

\* Rejection without the test for an empty array
RejectionAllowingEmpty(token, body, t) ==
    LET request == Some([token |-> token, body |-> body]) IN
    IF token = "none" THEN Some(Response(401, "Authentication required", t, request))
    ELSE IF token = "invalid" THEN Some(Response(401, "Invalid token", t, request))
    ELSE IF \/ body.patientId = None \/ body.providerId = None
            \/ body.serviceDate = None \/ ~Truthy(body.lineItems)
         THEN Some(Response(400, "Missing required fields", t, request))
    ELSE IF ~IsArray(body.lineItems)
         THEN Some(Response(400, "At least one line item is required", t, request))
    ELSE None

\* the guards of POST before processClaim is called: None when the request passes
Rejection(token, body, t) ==
    LET request == Some([token |-> token, body |-> body]) IN
    IF token = "none" THEN Some(Response(401, "Authentication required", t, request))
    ELSE IF token = "invalid" THEN Some(Response(401, "Invalid token", t, request))
    ELSE IF \/ body.patientId = None \/ body.providerId = None
            \/ body.serviceDate = None \/ ~Truthy(body.lineItems)
         THEN Some(Response(400, "Missing required fields", t, request))
    ELSE IF ~IsArray(body.lineItems) \/ Len(body.lineItems.items) = 0
         THEN Some(Response(400, "At least one line item is required", t, request))
    ELSE None

Submission(body) ==
    [patientId |-> body.patientId[1], providerId |-> body.providerId[1],
     serviceDate |-> body.serviceDate[1], lineItems |-> body.lineItems.items]

\* the answer of POST once processClaim has returned or thrown
Answer(done, token, body, t) ==
    [status |-> IF done.threw THEN 500 ELSE 200,
     error |-> IF done.threw THEN "Internal server error" ELSE "",
     at |-> t,
     request |-> Some([token |-> token, body |-> body]),
     claimId |-> Some(done.claimId),
     result |-> done.result,
     trace |-> done.trace]

\* the tables processClaim leaves and the answer of POST
Effects(done, token, body, t) ==
    [claims |-> done.claims, claimLineItems |-> done.claimLineItems,
     fraudAlerts |-> done.fraudAlerts, answer |-> Answer(done, token, body, t)]

\* what a POST leaves behind: the three tables and the answer
Handle(token, body, store, items, alertRows, t, keepsBlockScope) ==
    LET rejection == Rejection(token, body, t) IN
    IF rejection # None
    THEN [claims |-> store, claimLineItems |-> items, fraudAlerts |-> alertRows,
          answer |-> rejection[1]]
    ELSE Effects(processClaim(Submission(body), store, items, alertRows, t, keepsBlockScope),
                 token, body, t)

\* the writes of one POST
Commit(handled) ==
    /\ claims' = handled.claims
    /\ claimLineItems' = handled.claimLineItems
    /\ fraudAlerts' = handled.fraudAlerts
    /\ last' = handled.answer

POST(token, body) ==
    /\ requests < MaxRequests
    /\ requests' = requests + 1
    /\ UNCHANGED <<now, blockScoped, fnArgs, fnResult, batch, calls, rateLimitStore, limited>>
    /\ Commit(Handle(token, body, claims, claimLineItems, fraudAlerts, now, blockScoped))

(***************************************************************************)
(* The clock.  It moves in steps that put two requests just inside or just *)
(* beyond the duplicate window; a gap of exactly DuplicateWindowDays, where *)
(* the answer turns on the milliseconds between the insert and the query,  *)
(* is not generated.                                                       *)
(***************************************************************************)
DayJumps == {DuplicateWindowDays - 1, DuplicateWindowDays + 1}

Tick(d) ==
    /\ now + d <= MaxDay
    /\ now' = now + d
    /\ UNCHANGED <<blockScoped, claims, claimLineItems, fraudAlerts, requests, last,
                   fnArgs, fnResult, batch, calls, rateLimitStore, limited>>

(***************************************************************************)
(* The store before the first request: rows written before this process   *)
(* started (an empty store, one flagged claim, a flagged and two approved  *)
(* claims of the same provider).                                           *)
(***************************************************************************)
StoredClaim(id, providerId, lineItems, flagged) ==
    [NewClaim(id, [patientId |-> "pt1", providerId |-> providerId,
                   serviceDate |-> "2024-03-01", lineItems |-> lineItems], 0)
       EXCEPT !.status = IF flagged THEN "FLAGGED_FOR_FRAUD" ELSE "APPROVED",
              !.riskScore = Some(IF flagged THEN 90 ELSE 0),
              !.riskLevel = Some(IF flagged THEN "CRITICAL" ELSE "LOW"),
              !.isFlagged = flagged]

FlaggedItems == << Item("99215", <<>>, 2, 150) >>

\* a provider's earlier claims, each a single 99215 visit for a patient who
\* submits nothing further, all approved
HighLevelItems == << Item("99215", <<>>, 1, 150) >>
HistoryClaims == 8
HighLevelHistory ==
    [i \in 1..HistoryClaims |->
        [StoredClaim(i, "pr2", HighLevelItems, FALSE) EXCEPT !.patientId = "pt3"]]

InitialStores ==
    { <<>>,
      << StoredClaim(1, "pr1", FlaggedItems, TRUE) >>,
      << StoredClaim(1, "pr1", FlaggedItems, TRUE), StoredClaim(2, "pr1", CleanItems, FALSE),
         StoredClaim(3, "pr1", CleanItems, FALSE) >>,
      HighLevelHistory }

\* the line items stored with each claim of an initial store
InitialLineItems(store) ==
    IF store = HighLevelHistory THEN [i \in 1..Len(store) |-> HighLevelItems]
    ELSE <<FlaggedItems, CleanItems, CleanItems>>

RECURSIVE StoredLineItems(_, _)
StoredLineItems(store, lists) ==
    IF store = <<>> THEN <<>>
    ELSE [i \in 1..Len(Head(lists)) |-> NewLineItem(Head(store).id, Head(lists)[i])]
         \o StoredLineItems(Tail(store), Tail(lists))

\* the request-handling variables at start
ServiceInit ==
    /\ now = 0
    /\ blockScoped \in BOOLEAN
    /\ claims \in InitialStores
    /\ claimLineItems = StoredLineItems(claims, InitialLineItems(claims))
    /\ fraudAlerts = <<>>
    /\ requests = 0
    /\ last = Response(0, "", 0, None)
    /\ batch = NoBatch
    /\ calls = NoCalls
    /\ rateLimitStore = EmptyStore
    /\ limited = NoLimited

\* no function is under evaluation
Idle == [fn |-> "none"]

Init ==
    /\ ServiceInit
    /\ fnArgs = Idle
    /\ fnResult = None

Next ==
    \/ \E r \in Requests : POST(r.token, r.body)
    \/ \E d \in DayJumps : Tick(d)

Spec == Init /\ [][Next]_vars


(***************************************************************************)
(* Evaluation of single functions: the arguments are drawn at the start,   *)
(* one step applies the function, the request-handling variables rest.     *)
(***************************************************************************)
ServiceAtRest ==
    /\ now = 0
    /\ blockScoped = TRUE
    /\ claims = <<>>
    /\ claimLineItems = <<>>
    /\ fraudAlerts = <<>>
    /\ requests = 0
    /\ last = Response(0, "", 0, None)
    /\ batch = NoBatch
    /\ calls = NoCalls
    /\ rateLimitStore = EmptyStore
    /\ limited = NoLimited

Evaluating(fn) == fnArgs.fn = fn /\ fnResult = None
Evaluated(fn) == fnArgs.fn = fn /\ fnResult # None

Return(value) ==
    /\ fnResult' = Some(value)
    /\ UNCHANGED <<now, blockScoped, claims, claimLineItems, fraudAlerts, requests, last,
                   fnArgs, batch, calls, rateLimitStore, limited>>

\* a number n / d, d > 0
Ratio(n, d) == [n |-> n, d |-> d]
IsWhole(q) == q.n % q.d = 0

(***************************************************************************)
(* RiskScoringEngine: risk levels                                          *)
(***************************************************************************)
RISK_THRESHOLDS ==
    [LOW |-> [min |-> 0, max |-> 30],
     MEDIUM |-> [min |-> 31, max |-> 60],
     HIGH |-> [min |-> 61, max |-> 80],
     CRITICAL |-> [min |-> 81, max |-> 100]]

\* determineRiskLevel with > for >=
RiskScoringEngine_determineRiskLevelStrict(score) ==
    IF score.n > RISK_THRESHOLDS.CRITICAL.min * score.d THEN "CRITICAL"
    ELSE IF score.n > RISK_THRESHOLDS.HIGH.min * score.d THEN "HIGH"
    ELSE IF score.n > RISK_THRESHOLDS.MEDIUM.min * score.d THEN "MEDIUM"
    ELSE "LOW"

\* score is a Ratio: overallScore is a float
RiskScoringEngine_determineRiskLevel(score) ==
    IF score.n >= RISK_THRESHOLDS.CRITICAL.min * score.d THEN "CRITICAL"
    ELSE IF score.n >= RISK_THRESHOLDS.HIGH.min * score.d THEN "HIGH"
    ELSE IF score.n >= RISK_THRESHOLDS.MEDIUM.min * score.d THEN "MEDIUM"
    ELSE "LOW"

\* the scores 0, 1/d, 2/d, ..., 100
LevelArgs ==
    { [fn |-> "determineRiskLevel", score |-> Ratio(k, ScoreDenominator)] :
         k \in 0..(RISK_THRESHOLDS.CRITICAL.max * ScoreDenominator) }

\* both determineRiskLevel functions on one score; the processor's aggregate
\* score is a maximum of integers, so it is applied to whole scores only
EvaluateRiskLevel ==
    /\ Evaluating("determineRiskLevel")
    /\ Return([engine |-> RiskScoringEngine_determineRiskLevel(fnArgs.score),
               processor |->
                   IF IsWhole(fnArgs.score)
                   THEN Some(ClaimProcessor_determineRiskLevel(fnArgs.score.n \div fnArgs.score.d))
                   ELSE None])

InitLevels == ServiceAtRest /\ fnArgs \in LevelArgs /\ fnResult = None
NextLevels == EvaluateRiskLevel
SpecLevels == InitLevels /\ [][NextLevels]_vars

(***************************************************************************)
(* Numbers that need not be whole, kept exact as n / d                     *)
(***************************************************************************)
Abs(x) == IF x < 0 THEN -x ELSE x

RECURSIVE Gcd(_, _)
Gcd(a, b) == IF b = 0 THEN a ELSE Gcd(b, a % b)

Lowest(n, d, g) == Ratio(n \div g, d \div g)
Normal(q) == IF q.n = 0 THEN Ratio(0, 1) ELSE Lowest(q.n, q.d, Gcd(Abs(q.n), q.d))
Whole(k) == Ratio(k, 1)
Plus(a, b) == Normal(Ratio(a.n * b.d + b.n * a.d, a.d * b.d))
Minus(a, b) == Normal(Ratio(a.n * b.d - b.n * a.d, a.d * b.d))
Times(a, b) == Normal(Ratio(a.n * b.n, a.d * b.d))
\* a / b for b > 0
Over(a, b) == Normal(Ratio(a.n * b.d, a.d * b.n))
Greater(a, b) == a.n * b.d > b.n * a.d
AtLeast(a, b) == a.n * b.d >= b.n * a.d
MathMin(a, b) == IF Greater(a, b) THEN b ELSE a
MathMax(a, b) == IF Greater(a, b) THEN a ELSE b
MathAbs(q) == Ratio(Abs(q.n), q.d)

(***************************************************************************)
(* RiskScoringEngine: full scoring                                         *)
(***************************************************************************)
RISK_WEIGHTS ==
    [providerHistory |-> Ratio(25, 100),
     claimCharacteristics |-> Ratio(30, 100),
     patientProfile |-> Ratio(15, 100),
     networkRisk |-> Ratio(20, 100),
     behavioralPatterns |-> Ratio(10, 100)]

\* Math.min(Math.max(risk, 0), 100)
Clamp(risk) == MathMin(MathMax(risk, Whole(0)), Whole(100))

calculateProviderRisk(factors) ==
    LET history == factors.providerHistory
        trend == IF history.riskTrend = "DETERIORATING" THEN 20
                 ELSE IF history.riskTrend = "IMPROVING" THEN -10 ELSE 0
        value == IF Greater(history.averageClaimValue, Whole(1000)) THEN 15 ELSE 0
    IN Clamp(Plus(Times(history.flagRate, Whole(50)), Whole(trend + value)))

\* the method of lines 304-322, which shares its name with the entry point
calculateClaimRiskOfFactors(factors) ==
    LET characteristics == factors.claimCharacteristics
        amount == IF Greater(characteristics.totalAmount, Whole(5000)) THEN 30
                  ELSE IF Greater(characteristics.totalAmount, Whole(2000)) THEN 15 ELSE 0
        complexity == MathMin(Times(characteristics.complexity, Whole(3)), Whole(25))
        unusual == Whole(Len(characteristics.unusualCodes) * 10)
        bundling == Times(characteristics.bundlingRisk, Whole(20))
    IN Clamp(Plus(Plus(Plus(Whole(amount), complexity), unusual), bundling))

calculatePatientRisk(factors) ==
    LET profile == factors.patientProfile
        age == IF Greater(profile.age, Whole(85)) \/ Greater(Whole(1), profile.age)
               THEN 15 ELSE 0
        new == IF profile.newPatient THEN 10 ELSE 0
        chronic == MathMin(Times(profile.chronicConditions, Whole(2)), Whole(20))
        visits == IF Greater(profile.visitFrequency, Whole(50)) THEN 20 ELSE 0
        geographic == Times(profile.geographicAnomalies, Whole(15))
    IN Clamp(Plus(Plus(Whole(age + new + visits), chronic), geographic))

calculateNetworkRisk(factors) ==
    LET network == factors.networkRisk
        connections == Times(network.suspiciousConnections, Whole(8))
        cluster == IF network.clusterMembership THEN 25 ELSE 0
        ring == Len(network.fraudRingIndicators) * 15
        referral == Times(network.referralAnomalies, Whole(10))
    IN Clamp(Plus(Plus(connections, Whole(cluster + ring)), referral))

calculateBehavioralRisk(factors) ==
    LET patterns == factors.behavioralPatterns
        frequency == IF Greater(patterns.billingFrequency, Whole(100)) THEN 20 ELSE 0
    IN Clamp(Plus(Plus(Plus(Whole(frequency),
                            Times(patterns.timePatterns, Whole(15))),
                       Times(patterns.codeDistribution, Whole(15))),
                  Times(patterns.modifierUsage, Whole(10))))

\* parseInt of a string of decimal digits
RECURSIVE parseInt(_)
parseInt(digits) ==
    IF digits = <<>> THEN 0
    ELSE 10 * parseInt(SubSeq(digits, 1, Len(digits) - 1)) + digits[Len(digits)]

\* content.scoreDigits: the digits the pattern /"score":\s*(\d+)/ captures in
\* the model's answer, empty when the answer has no match
extractScoreFromResponse(content) ==
    IF content.scoreDigits = <<>> THEN 50 ELSE parseInt(content.scoreDigits)

\* runOpenAIModel / runClaudeModel / runGoogleModel: null when the call fails
RunModel(model, confidence, response) ==
    IF response.failed THEN None
    ELSE Some([model |-> model,
               prediction |-> Whole(extractScoreFromResponse(response)),
               confidence |-> confidence])

runOpenAIModel(response) == RunModel("OpenAI-GPT4", Ratio(85, 100), response)
runClaudeModel(response) == RunModel("Anthropic-Claude3", Ratio(88, 100), response)
runGoogleModel(response) == RunModel("Google-Gemini", Ratio(82, 100), response)

\* the predictions of the models that answered, in call order
runMLModels(responses) ==
    runOpenAIModel(responses.openai) \o runClaudeModel(responses.claude)
        \o runGoogleModel(responses.google)

calculateWeightedScore(scores) ==
    [overallScore |->
         Plus(Plus(Plus(Plus(Times(scores.providerRisk, RISK_WEIGHTS.providerHistory),
                             Times(scores.claimRisk, RISK_WEIGHTS.claimCharacteristics)),
                        Times(scores.patientRisk, RISK_WEIGHTS.patientProfile)),
                   Times(scores.networkRisk, RISK_WEIGHTS.networkRisk)),
              Times(scores.behavioralRisk, RISK_WEIGHTS.behavioralPatterns)),
     confidence |-> Ratio(75, 100),
     riskLevel |-> "MEDIUM",
     breakdown |-> scores,
     keyDrivers |-> <<>>,
     recommendations |-> <<>>,
     auditTriggers |-> <<>>]

RECURSIVE WeightedPredictions(_)
WeightedPredictions(predictions) ==
    IF predictions = <<>> THEN Whole(0)
    ELSE Plus(Times(Head(predictions).prediction, Head(predictions).confidence),
              WeightedPredictions(Tail(predictions)))

RECURSIVE TotalConfidence(_)
TotalConfidence(predictions) ==
    IF predictions = <<>> THEN Whole(0)
    ELSE Plus(Head(predictions).confidence, TotalConfidence(Tail(predictions)))

enhanceWithML(baseScore, predictions) ==
    IF Len(predictions) = 0 THEN baseScore
    ELSE LET mlScore == Over(WeightedPredictions(predictions), TotalConfidence(predictions))
             enhancedScore == Plus(Times(baseScore.overallScore, Ratio(6, 10)),
                                   Times(mlScore, Ratio(4, 10)))
         IN [baseScore EXCEPT
                !.overallScore = enhancedScore,
                !.confidence = MathMin(Plus(baseScore.confidence, Ratio(15, 100)),
                                       Ratio(95, 100))]

identifyKeyDrivers(factors) ==
    (IF Greater(factors.providerHistory.flagRate, Ratio(3, 10))
     THEN <<"High provider flag rate">> ELSE <<>>)
    \o (IF Greater(factors.claimCharacteristics.totalAmount, Whole(5000))
        THEN <<"High claim amount">> ELSE <<>>)
    \o (IF Greater(factors.networkRisk.suspiciousConnections, Whole(5))
        THEN <<"Suspicious network connections">> ELSE <<>>)
    \o (IF Greater(factors.behavioralPatterns.billingFrequency, Whole(100))
        THEN <<"Unusual billing frequency">> ELSE <<>>)

\* the recommendations one key driver adds (driver.includes(...))
DriverRecommendations(driver) ==
    CASE driver = "High provider flag rate" -> <<"Review provider history and patterns">>
      [] driver = "Suspicious network connections" -> <<"Analyze provider network associations">>
      [] driver = "Unusual billing frequency" -> <<"Verify billing patterns and capacity">>
      [] OTHER -> <<>>

RECURSIVE DriversRecommendations(_)
DriversRecommendations(keyDrivers) ==
    IF keyDrivers = <<>> THEN <<>>
    ELSE DriverRecommendations(Head(keyDrivers)) \o DriversRecommendations(Tail(keyDrivers))

RiskScoringEngine_generateRecommendations(riskLevel, keyDrivers) ==
    (CASE riskLevel = "CRITICAL" -> <<"Immediate investigation required",
                                      "Consider payment suspension">>
       [] riskLevel = "HIGH" -> <<"Manual review required",
                                  "Request additional documentation">>
       [] riskLevel = "MEDIUM" -> <<"Enhanced monitoring recommended">>
       [] OTHER -> <<>>)
    \o DriversRecommendations(keyDrivers)

RiskScoringEngine_generateAuditTriggers(riskLevel, overallScore) ==
    (CASE riskLevel = "CRITICAL" -> <<"CRITICAL_RISK_ALERT", "IMMEDIATE_AUDIT_REQUIRED">>
       [] riskLevel = "HIGH" -> <<"HIGH_RISK_DETECTED", "MANUAL_REVIEW_NEEDED">>
       [] OTHER -> <<>>)
    \o (IF Greater(overallScore, Whole(90)) THEN <<"EXTREME_RISK_SCORE">> ELSE <<>>)

\* lines 103-107: the five components
Breakdown(factors) ==
    [providerRisk |-> calculateProviderRisk(factors),
     claimRisk |-> calculateClaimRiskOfFactors(factors),
     patientRisk |-> calculatePatientRisk(factors),
     networkRisk |-> calculateNetworkRisk(factors),
     behavioralRisk |-> calculateBehavioralRisk(factors)]

\* lines 126-138: level and insights put on the enhanced score
WithInsights(enhancedScore, riskLevel, keyDrivers) ==
    [enhancedScore EXCEPT
        !.riskLevel = riskLevel,
        !.keyDrivers = keyDrivers,
        !.recommendations = RiskScoringEngine_generateRecommendations(riskLevel, keyDrivers),
        !.auditTriggers =
            RiskScoringEngine_generateAuditTriggers(riskLevel, enhancedScore.overallScore)]

Scored(enhancedScore, factors) ==
    WithInsights(enhancedScore,
                 RiskScoringEngine_determineRiskLevel(enhancedScore.overallScore),
                 identifyKeyDrivers(factors))

\* calculateClaimRisk(claimId), lines 97-139, on the risk factors extracted
\* for the claim and the answers of the three models.  The class declares
\* calculateClaimRisk twice (97 and 304): where the last declaration is the
\* one the name denotes, the call binds to the method of 304 with factors
\* undefined and throws on factors.claimCharacteristics.
RiskScoringEngine_calculateClaimRisk(factors, responses, lastDeclarationWins) ==
    IF lastDeclarationWins
    THEN [threw |-> TRUE, score |-> None]
    ELSE [threw |-> FALSE,
          score |-> Some(Scored(enhanceWithML(calculateWeightedScore(Breakdown(factors)),
                                              runMLModels(responses)),
                                factors))]

ProviderHistories ==
    { [totalClaims |-> 10, flaggedClaims |-> 0, flagRate |-> Whole(0),
       averageClaimValue |-> Whole(500), riskTrend |-> "IMPROVING"],
      [totalClaims |-> 10, flaggedClaims |-> 5, flagRate |-> Ratio(1, 2),
       averageClaimValue |-> Whole(500), riskTrend |-> "STABLE"],
      [totalClaims |-> 10, flaggedClaims |-> 10, flagRate |-> Whole(1),
       averageClaimValue |-> Whole(1500), riskTrend |-> "DETERIORATING"] }

ClaimCharacteristics ==
    { [totalAmount |-> Whole(1000), complexity |-> Whole(0), unusualCodes |-> <<>>,
       timeDocumentation |-> Whole(0), bundlingRisk |-> Whole(0)],
      [totalAmount |-> Whole(3000), complexity |-> Whole(2), unusualCodes |-> <<>>,
       timeDocumentation |-> Whole(0), bundlingRisk |-> Ratio(3, 10)],
      [totalAmount |-> Whole(6000), complexity |-> Whole(10),
       unusualCodes |-> <<"99999", "99998", "99997", "99999", "99998", "99997">>,
       timeDocumentation |-> Whole(0), bundlingRisk |-> Whole(1)] }

PatientProfiles ==
    { [age |-> Whole(40), newPatient |-> FALSE, chronicConditions |-> Whole(0),
       visitFrequency |-> Whole(3), geographicAnomalies |-> Whole(0)],
      [age |-> Whole(90), newPatient |-> TRUE, chronicConditions |-> Whole(12),
       visitFrequency |-> Whole(60), geographicAnomalies |-> Whole(3)] }

NetworkRisks ==
    { [suspiciousConnections |-> Whole(0), clusterMembership |-> FALSE,
       fraudRingIndicators |-> <<>>, referralAnomalies |-> Whole(0)],
      [suspiciousConnections |-> Whole(10), clusterMembership |-> TRUE,
       fraudRingIndicators |-> <<"SHARED_ADDRESS", "SHARED_PATIENTS">>,
       referralAnomalies |-> Whole(2)] }

BehavioralPatterns ==
    { [billingFrequency |-> Whole(0), timePatterns |-> Whole(0),
       codeDistribution |-> Whole(0), modifierUsage |-> Whole(0)],
      [billingFrequency |-> Whole(150), timePatterns |-> Whole(3),
       codeDistribution |-> Whole(3), modifierUsage |-> Whole(2)] }

RiskFactorsTried ==
    [providerHistory : ProviderHistories,
     claimCharacteristics : ClaimCharacteristics,
     patientProfile : PatientProfiles,
     networkRisk : NetworkRisks,
     behavioralPatterns : BehavioralPatterns]

\* what one external model does: the call fails, or it answers with no
\* score, or with the score 0, 100 or 250
ModelResponses ==
    { [failed |-> TRUE, scoreDigits |-> <<>>] }
    \cup { [failed |-> FALSE, scoreDigits |-> digits] :
             digits \in { <<>>, <<0>>, <<1, 0, 0>>, <<2, 5, 0>> } }

ScoringArgs ==
    [fn : {"calculateClaimRisk"},
     factors : RiskFactorsTried,
     responses : [openai : ModelResponses, claude : ModelResponses, google : ModelResponses],
     lastDeclarationWins : BOOLEAN]

EvaluateFullScoring ==
    /\ Evaluating("calculateClaimRisk")
    /\ Return(RiskScoringEngine_calculateClaimRisk(fnArgs.factors, fnArgs.responses,
                                                   fnArgs.lastDeclarationWins))

InitScoring == ServiceAtRest /\ fnArgs \in ScoringArgs /\ fnResult = None
NextScoring == EvaluateFullScoring
SpecScoring == InitScoring /\ [][NextScoring]_vars

(***************************************************************************)
(* lib/fraud/upcoding-detector.ts: UpcodingDetector                        *)
(***************************************************************************)
UPCODING_PATTERNS ==
    << [pattern |-> "CONSISTENT_HIGH_LEVEL", riskScore |-> 75],
       [pattern |-> "TIME_DOCUMENTATION_MISMATCH", riskScore |-> 80],
       [pattern |-> "MODIFIER_ABUSE", riskScore |-> 65],
       [pattern |-> "SPECIALTY_DEVIATION", riskScore |-> 70],
       [pattern |-> "BUNDLING_EVASION", riskScore |-> 85] >>

\* item.totalCost > cptCode.typicalRange.max * 1.5 for some item of some claim
checkTimeDocumentationMismatch(providerClaims) ==
    \E c \in 1..Len(providerClaims) :
        \E i \in 1..Len(providerClaims[c].claimLineItems) :
            LET item == providerClaims[c].claimLineItems[i] IN
            /\ item.procedureCode \in DOMAIN CPT_CODES
            /\ 2 * item.totalCost > 3 * CPT_CODES[item.procedureCode].typicalMax

\* Object.values(modifierUsage).reduce(sum)
RECURSIVE TotalModifiers(_, _)
TotalModifiers(modifierUsage, keys) ==
    IF keys = {} THEN 0
    ELSE LET k == CHOOSE x \in keys : TRUE
         IN modifierUsage[k] + TotalModifiers(modifierUsage, keys \ {k})

\* modifierUsage[modifier] || 0
UsageOf(modifierUsage, modifier) ==
    IF modifier \in DOMAIN modifierUsage THEN modifierUsage[modifier] ELSE 0

ModifierAbuse(modifierUsage, totalModifiers) ==
    IF totalModifiers = 0 THEN FALSE
    ELSE IF 10 * UsageOf(modifierUsage, "59") > 3 * totalModifiers THEN TRUE
    ELSE IF 10 * UsageOf(modifierUsage, "25") > 4 * totalModifiers THEN TRUE
    ELSE FALSE

checkModifierAbuse(modifierUsage) ==
    ModifierAbuse(modifierUsage, TotalModifiers(modifierUsage, DOMAIN modifierUsage))

ProcedureCodes(lineItems) == [i \in 1..Len(lineItems) |-> lineItems[i].procedureCode]

checkBundlingEvasion(providerClaims) ==
    \E c \in 1..Len(providerClaims) :
        validateCodeCombination(ProcedureCodes(providerClaims[c].claimLineItems)).riskScore > 70

evaluatePattern(pattern, providerClaims, profile) ==
    CASE pattern.pattern = "CONSISTENT_HIGH_LEVEL" ->
             /\ Greater(profile.highLevelCodeFrequency, Ratio(6, 10))
             /\ Greater(profile.averageComplexity, Ratio(42, 10))
      [] pattern.pattern = "TIME_DOCUMENTATION_MISMATCH" ->
             checkTimeDocumentationMismatch(providerClaims)
      [] pattern.pattern = "MODIFIER_ABUSE" -> checkModifierAbuse(profile.modifierUsage)
      [] pattern.pattern = "SPECIALTY_DEVIATION" -> Greater(profile.deviationScore, Whole(70))
      [] pattern.pattern = "BUNDLING_EVASION" -> checkBundlingEvasion(providerClaims)
      [] OTHER -> FALSE

detectUpcodingPatterns(providerClaims, profile) ==
    SelectSeq(UPCODING_PATTERNS, LAMBDA pattern : evaluatePattern(pattern, providerClaims, profile))

getSpecialtyBenchmarks(specialty) ==
    CASE specialty = "INTERNAL_MEDICINE" ->
             [averageCodeLevel |-> Ratio(35, 10), typicalModifiers |-> <<"25", "57">>]
      [] specialty = "CARDIOLOGY" ->
             [averageCodeLevel |-> Ratio(40, 10), typicalModifiers |-> <<"26", "59">>]
      [] specialty = "ORTHOPEDICS" ->
             [averageCodeLevel |-> Ratio(38, 10), typicalModifiers |-> <<"59", "78">>]
      [] OTHER ->
             [averageCodeLevel |-> Ratio(32, 10), typicalModifiers |-> <<"25", "59">>]

DeviationOf(complexityDeviation, highLevelFreq, unusualModifiers) ==
    MathMin(Plus(Plus(MathMin(complexityDeviation, Whole(40)),
                      IF Greater(highLevelFreq, Ratio(4, 10)) THEN Whole(30) ELSE Whole(0)),
                 Whole(Cardinality(unusualModifiers) * 10)),
            Whole(100))

calculateDeviationScore(avgComplexity, highLevelFreq, modifierUsage, benchmarks) ==
    DeviationOf(Times(MathAbs(Minus(avgComplexity, benchmarks.averageCodeLevel)), Whole(20)),
                highLevelFreq,
                {mod \in DOMAIN modifierUsage : ~Includes(benchmarks.typicalModifiers, mod)})

\* the levels with every boundary taken as exclusive
MetricsOfStrict(confidence) ==
    [confidence |-> confidence,
     riskLevel |-> IF Greater(confidence, Whole(80)) THEN "CRITICAL"
                   ELSE IF Greater(confidence, Whole(60)) THEN "HIGH"
                   ELSE IF Greater(confidence, Whole(40)) THEN "MEDIUM"
                   ELSE "LOW"]

MetricsOf(confidence) ==
    [confidence |-> confidence,
     riskLevel |-> IF AtLeast(confidence, Whole(80)) THEN "CRITICAL"
                   ELSE IF AtLeast(confidence, Whole(60)) THEN "HIGH"
                   ELSE IF AtLeast(confidence, Whole(40)) THEN "MEDIUM"
                   ELSE "LOW"]

RECURSIVE TotalRiskScore(_)
TotalRiskScore(patterns) ==
    IF patterns = <<>> THEN 0 ELSE Head(patterns).riskScore + TotalRiskScore(Tail(patterns))

calculateRiskMetrics(patterns) ==
    IF Len(patterns) = 0 THEN [confidence |-> Whole(0), riskLevel |-> "LOW"]
    ELSE MetricsOf(Normal(Ratio(TotalRiskScore(patterns), Len(patterns))))

HasPattern(patterns, name) == \E i \in 1..Len(patterns) : patterns[i].pattern = name

UpcodingDetector_generateRecommendations(patterns, profile) ==
    (IF HasPattern(patterns, "CONSISTENT_HIGH_LEVEL")
     THEN <<"Review medical record documentation for high-level E&M codes",
            "Audit time spent with patients versus billed complexity">> ELSE <<>>)
    \o (IF HasPattern(patterns, "MODIFIER_ABUSE")
        THEN <<"Review modifier usage for medical necessity",
               "Educate on appropriate modifier application">> ELSE <<>>)
    \o (IF HasPattern(patterns, "BUNDLING_EVASION")
        THEN <<"Review bundling rules and appropriate use of modifier 59",
               "Consider compliance review for procedure coding">> ELSE <<>>)
    \o (IF Greater(profile.deviationScore, Whole(70))
        THEN <<"Compare coding patterns with specialty peers",
               "Consider external coding audit">> ELSE <<>>)

\* pattern.pattern.toUpperCase() + '_DETECTED'
Detected(pattern) ==
    CASE pattern = "CONSISTENT_HIGH_LEVEL" -> "CONSISTENT_HIGH_LEVEL_DETECTED"
      [] pattern = "TIME_DOCUMENTATION_MISMATCH" -> "TIME_DOCUMENTATION_MISMATCH_DETECTED"
      [] pattern = "MODIFIER_ABUSE" -> "MODIFIER_ABUSE_DETECTED"
      [] pattern = "SPECIALTY_DEVIATION" -> "SPECIALTY_DEVIATION_DETECTED"
      [] pattern = "BUNDLING_EVASION" -> "BUNDLING_EVASION_DETECTED"

UpcodingDetector_generateAuditTriggers(patterns, confidence) ==
    (IF AtLeast(confidence, Whole(80)) THEN <<"IMMEDIATE_AUDIT_REQUIRED", "SUSPEND_PAYMENTS">>
     ELSE IF AtLeast(confidence, Whole(60))
          THEN <<"ENHANCED_MONITORING", "DOCUMENTATION_REQUEST">>
          ELSE <<>>)
    \o [i \in 1..Len(patterns) |-> Detected(patterns[i].pattern)]

\* analyzeProviderProfile, lines 203-218: the profile made of the coding
\* metrics of a provider of the given specialty
ProviderCodingProfile(providerId, averageComplexity, highLevelFrequency, usage, specialty) ==
    [providerId |-> providerId,
     averageComplexity |-> averageComplexity,
     highLevelCodeFrequency |-> highLevelFrequency,
     modifierUsage |-> usage,
     specialtyBenchmarks |-> getSpecialtyBenchmarks(specialty),
     deviationScore |->
         calculateDeviationScore(averageComplexity, highLevelFrequency, usage,
                                 getSpecialtyBenchmarks(specialty))]

createEmptyResult(providerId) ==
    [isUpcoding |-> FALSE,
     confidence |-> Whole(0),
     riskLevel |-> "LOW",
     patterns |-> <<>>,
     providerProfile |->
         [providerId |-> providerId,
          averageComplexity |-> Whole(0),
          highLevelCodeFrequency |-> Whole(0),
          modifierUsage |-> <<>>,
          specialtyBenchmarks |-> getSpecialtyBenchmarks("GENERAL_PRACTICE"),
          deviationScore |-> Whole(0)],
     recommendations |-> <<"No claims data available for analysis">>,
     auditTriggers |-> <<>>]

DetectionResult(detectedPatterns, metrics, providerProfile) ==
    [isUpcoding |-> Greater(metrics.confidence, Whole(60)),
     confidence |-> metrics.confidence,
     riskLevel |-> metrics.riskLevel,
     patterns |-> detectedPatterns,
     providerProfile |-> providerProfile,
     recommendations |-> UpcodingDetector_generateRecommendations(detectedPatterns,
                                                                  providerProfile),
     auditTriggers |-> UpcodingDetector_generateAuditTriggers(detectedPatterns,
                                                              metrics.confidence)]

Detection(detectedPatterns, providerProfile) ==
    DetectionResult(detectedPatterns, calculateRiskMetrics(detectedPatterns), providerProfile)

\* detectUpcoding, lines 73-107, on the provider's claims of the time window
\* and the profile analysed from them
UpcodingDetector_detectUpcoding(providerClaims, providerProfile) ==
    IF Len(providerClaims) = 0 THEN createEmptyResult(providerProfile.providerId)
    ELSE Detection(detectUpcodingPatterns(providerClaims, providerProfile), providerProfile)

CostedItem(code, totalCost) == [procedureCode |-> code, totalCost |-> totalCost]
CleanClaim == [claimLineItems |-> <<CostedItem("99213", 75)>>]
OverpricedClaim == [claimLineItems |-> <<CostedItem("99215", 300)>>]
SplitClaim ==
    [claimLineItems |-> <<CostedItem("43239", 500), CostedItem("43235", 200),
                          CostedItem("43236", 200)>>]

ProviderClaimSets ==
    { <<>>, <<CleanClaim>>, <<CleanClaim, OverpricedClaim>>, <<SplitClaim>>,
      <<OverpricedClaim, SplitClaim>> }

ModifierUsages ==
    { <<>>,
      ("59" :> 3),
      ("26" :> 1 @@ "57" :> 1 @@ "78" :> 1 @@ "91" :> 1) }

Specialties == {"GENERAL_PRACTICE", "CARDIOLOGY", "DERMATOLOGY"}

AverageComplexities == {Whole(3), Ratio(9, 2), Whole(5)}

\* highLevelCodeFrequency is tried at 0, 1/FrequencySteps, ..., 1
Frequencies == { Ratio(k, FrequencySteps) : k \in 0..FrequencySteps }

FrequencyPairs == { pair \in Frequencies \X Frequencies : AtLeast(pair[2], pair[1]) }

\* two profiles that differ in highLevelCodeFrequency only
UpcodingArgs ==
    { [fn |-> "detectUpcoding", providerClaims |-> c, averageComplexity |-> a,
       modifierUsage |-> u, specialty |-> s, lower |-> pair[1], higher |-> pair[2]] :
         c \in ProviderClaimSets, a \in AverageComplexities, u \in ModifierUsages,
         s \in Specialties, pair \in FrequencyPairs }

DetectWith(args, frequency) ==
    UpcodingDetector_detectUpcoding(
        args.providerClaims,
        ProviderCodingProfile("pr1", args.averageComplexity, frequency, args.modifierUsage,
                              args.specialty))

EvaluateUpcoding ==
    /\ Evaluating("detectUpcoding")
    /\ Return([lower |-> DetectWith(fnArgs, fnArgs.lower),
               higher |-> DetectWith(fnArgs, fnArgs.higher)])

InitUpcoding == ServiceAtRest /\ fnArgs \in UpcodingArgs /\ fnResult = None
NextUpcoding == EvaluateUpcoding
SpecUpcoding == InitUpcoding /\ [][NextUpcoding]_vars

(***************************************************************************)
(* BillingCodeValidator.validateCodeCombination on submitted code lists    *)
(***************************************************************************)
CodesTried == {"43239", "43235", "43236", "80053", "80048", "99213", "99214"}

CodeLists == UNION { [1..n -> CodesTried] : n \in 0..MaxCodes }

CodeArgs == { [fn |-> "validateCodeCombination", codes |-> codes] : codes \in CodeLists }

EvaluateCodeCombination ==
    /\ Evaluating("validateCodeCombination")
    /\ Return(validateCodeCombination(fnArgs.codes))

InitCodes == ServiceAtRest /\ fnArgs \in CodeArgs /\ fnResult = None
NextCodes == EvaluateCodeCombination
SpecCodes == InitCodes /\ [][NextCodes]_vars

(***************************************************************************)
(* lib/fraud/phantom-billing-detector.ts: the volume check                 *)
(***************************************************************************)
\* capacityMap[providerType] || 32
calculateMaxDailyCapacity(providerType) ==
    CASE providerType = "PHYSICIAN" -> 32
      [] providerType = "HOSPITAL" -> 200
      [] providerType = "CLINIC" -> 80
      [] providerType = "LABORATORY" -> 150
      [] providerType = "THERAPIST" -> 24
      [] providerType = "DURABLE_MEDICAL_EQUIPMENT" -> 50
      [] OTHER -> 32

\* claim.claimLineItems.reduce((sum, item) => sum + item.units, 0)
RECURSIVE ClaimUnits(_)
ClaimUnits(lineItems) ==
    IF lineItems = <<>> THEN 0 ELSE Head(lineItems).units + ClaimUnits(Tail(lineItems))

\* dailyVolume[dateKey] || 0
VolumeOn(dailyVolume, dateKey) ==
    IF dateKey \in DOMAIN dailyVolume THEN dailyVolume[dateKey] ELSE 0

\* the claims.forEach of analyzeVolume: units added up per service date
RECURSIVE DailyVolume(_, _)
DailyVolume(providerClaims, dailyVolume) ==
    IF providerClaims = <<>> THEN dailyVolume
    ELSE LET claim == Head(providerClaims)
             volume == VolumeOn(dailyVolume, claim.serviceDate)
                           + ClaimUnits(claim.claimLineItems)
         IN DailyVolume(Tail(providerClaims),
                        [d \in DOMAIN dailyVolume \cup {claim.serviceDate} |->
                            IF d = claim.serviceDate THEN volume ELSE dailyVolume[d]])

\* Math.max over the volumes of the suspicious dates, 0 when there is none
RECURSIVE MaxVolume(_, _)
MaxVolume(dailyVolume, dates) ==
    IF dates = {} THEN 0
    ELSE LET d == CHOOSE x \in dates : TRUE
         IN Max(dailyVolume[d], MaxVolume(dailyVolume, dates \ {d}))

VolumeAnalysis(maxDailyCapacity, maxClaimedVolume, suspiciousDates) ==
    [maxDailyCapacity |-> maxDailyCapacity,
     claimedDailyVolume |-> maxClaimedVolume,
     volumeExceeded |-> maxClaimedVolume > maxDailyCapacity,
     excessPercentage |->
         IF maxDailyCapacity > 0
         THEN Times(Ratio(maxClaimedVolume - maxDailyCapacity, maxDailyCapacity), Whole(100))
         ELSE Whole(0),
     suspiciousDates |-> suspiciousDates]

SuspiciousDates(dailyVolume, maxDailyCapacity) ==
    {d \in DOMAIN dailyVolume : dailyVolume[d] > maxDailyCapacity}

VolumeOf(dailyVolume, maxDailyCapacity) ==
    VolumeAnalysis(maxDailyCapacity,
                   MaxVolume(dailyVolume, SuspiciousDates(dailyVolume, maxDailyCapacity)),
                   SuspiciousDates(dailyVolume, maxDailyCapacity))

\* provider: the provider row, None when prisma finds none
analyzeVolume(providerClaims, provider) ==
    VolumeOf(DailyVolume(providerClaims, <<>>),
             calculateMaxDailyCapacity(IF provider = None THEN "PHYSICIAN"
                                       ELSE provider[1].providerType))

\* IMPOSSIBLE_VOLUME with >= 50 for > 50
ImpossibleVolumeFromHalf(volumeAnalysis) ==
    volumeAnalysis.volumeExceeded /\ AtLeast(volumeAnalysis.excessPercentage, Whole(50))

\* evaluatePhantomPattern, case 'IMPOSSIBLE_VOLUME'
ImpossibleVolume(volumeAnalysis) ==
    volumeAnalysis.volumeExceeded /\ Greater(volumeAnalysis.excessPercentage, Whole(50))

UnitLists == { <<12>>, <<16>>, <<16, 8>>, <<25>>, <<32>>, <<40, 9>> }

VolumeDates == {"2024-03-01", "2024-03-02"}

VolumeClaims ==
    { [serviceDate |-> d, claimLineItems |-> [i \in 1..Len(u) |-> [units |-> u[i]]]] :
         d \in VolumeDates, u \in UnitLists }

VolumeProviders ==
    { None, Some([providerType |-> "PHYSICIAN"]), Some([providerType |-> "THERAPIST"]) }

VolumeArgs ==
    { [fn |-> "analyzeVolume", providerClaims |-> c, provider |-> p] :
         c \in UNION { [1..n -> VolumeClaims] : n \in 1..MaxVolumeClaims },
         p \in VolumeProviders }

\* lines 110 and 117-126 of detectPhantomBilling: the volume analysis and
\* the evaluation of the IMPOSSIBLE_VOLUME pattern on it
EvaluateVolume ==
    /\ Evaluating("analyzeVolume")
    /\ Return([volumeAnalysis |-> analyzeVolume(fnArgs.providerClaims, fnArgs.provider),
               impossibleVolume |->
                   ImpossibleVolume(analyzeVolume(fnArgs.providerClaims, fnArgs.provider))])

InitVolume == ServiceAtRest /\ fnArgs \in VolumeArgs /\ fnResult = None
NextVolume == EvaluateVolume
SpecVolume == InitVolume /\ [][NextVolume]_vars

(***************************************************************************)
(* ProviderNetworkAnalyzer: clusters of connected providers                *)
(***************************************************************************)
\* buildProviderNode: the node of a provider with its claim counts
buildProviderNode(provider) ==
    [id |-> provider.id,
     totalClaims |-> provider.totalClaims,
     flaggedClaims |-> provider.flaggedClaims,
     totalBilled |-> provider.totalBilled,
     riskScore |-> IF provider.totalClaims > 0
                   THEN Times(Ratio(provider.flaggedClaims, provider.totalClaims), Whole(100))
                   ELSE Whole(0)]

MaxSharedPatients == 12

SUSPICIOUS_RELATIONSHIPS ==
    {"SHARED_ADDRESS", "SHARED_PHONE", "SHARED_FACILITY", "REFERRAL_LOOP",
     "EXCESSIVE_REFERRALS", "PATTERN_MATCHING"}

\* what analyzeProviderPair reads off two providers: whether both have the
\* same non-empty address and phone number, how many patient ids occur in
\* the claims of both, and whether a service date occurs in the claims of both
ProviderPair(provider1Id, provider2Id, sameAddress, samePhone, sharedPatients, commonDates) ==
    [provider1Id |-> provider1Id, provider2Id |-> provider2Id,
     sameAddress |-> sameAddress, samePhone |-> samePhone,
     sharedPatients |-> sharedPatients, commonDates |-> commonDates]

\* the patients of provider1 that provider2 has as well, counted again
analyzeReferralPatterns(pair) == pair.sharedPatients

\* 0.8 when the providers have a common service date, as tenths
analyzeCoordinationPatterns(pair) == IF pair.commonDates THEN Ratio(8, 10) ELSE Whole(0)

\* the five checks of analyzeProviderPair in order: the relationship type
\* pushed, the strength added and the indicator pushed by each check that
\* applies
PairChecks(pair) ==
    (IF pair.sameAddress
     THEN <<[type |-> "SHARED_ADDRESS", strength |-> 30,
             indicator |-> "Same business address"]>> ELSE <<>>)
    \o (IF pair.samePhone
        THEN <<[type |-> "SHARED_PHONE", strength |-> 25,
                indicator |-> "Same phone number"]>> ELSE <<>>)
    \o (IF pair.sharedPatients > 0
        THEN <<[type |-> "SHARED_PATIENTS", strength |-> Min(pair.sharedPatients * 5, 40),
                indicator |-> ToString(pair.sharedPatients) \o " shared patients"]>> ELSE <<>>)
    \o (IF analyzeReferralPatterns(pair) > 5
        THEN <<[type |-> "HIGH_REFERRAL_FREQUENCY",
                strength |-> Min(analyzeReferralPatterns(pair) * 3, 35),
                indicator |-> ToString(analyzeReferralPatterns(pair))
                                  \o " referrals between providers"]>> ELSE <<>>)
    \o (IF Greater(analyzeCoordinationPatterns(pair), Ratio(7, 10))
        THEN <<[type |-> "COORDINATED_BILLING", strength |-> 30,
                indicator |-> "Coordinated billing patterns detected"]>> ELSE <<>>)

RECURSIVE StrengthOf(_)
StrengthOf(checks) ==
    IF checks = <<>> THEN 0 ELSE Head(checks).strength + StrengthOf(Tail(checks))

\* strength > 50 || relationshipTypes.some(type => SUSPICIOUS_RELATIONSHIPS.includes(type))
IsSuspicious(checks) ==
    \/ StrengthOf(checks) > 50
    \/ \E i \in 1..Len(checks) : checks[i].type \in SUSPICIOUS_RELATIONSHIPS

\* Math.min(strength + (isSuspicious ? 20 : 0), 100)
ConnectionRisk(checks) ==
    Min(StrengthOf(checks) + (IF IsSuspicious(checks) THEN 20 ELSE 0), 100)

\* null when no check applied; relationshipType holds the joined types as a list
analyzeProviderPair(pair) ==
    IF PairChecks(pair) = <<>> THEN None
    ELSE Some([provider1Id |-> pair.provider1Id,
               provider2Id |-> pair.provider2Id,
               relationshipType |-> [i \in 1..Len(PairChecks(pair)) |-> PairChecks(pair)[i].type],
               strength |-> StrengthOf(PairChecks(pair)),
               claimFrequency |-> pair.sharedPatients + analyzeReferralPatterns(pair),
               riskScore |-> ConnectionRisk(PairChecks(pair)),
               isSuspicious |-> IsSuspicious(PairChecks(pair)),
               indicators |-> [i \in 1..Len(PairChecks(pair)) |-> PairChecks(pair)[i].indicator]])

PairArgs ==
    { [fn |-> "analyzeProviderPair", pair |-> ProviderPair("a", "b", sa, sp, n, cd)] :
         sa \in BOOLEAN, sp \in BOOLEAN, n \in 0..MaxSharedPatients, cd \in BOOLEAN }

EvaluatePair ==
    /\ Evaluating("analyzeProviderPair")
    /\ Return(analyzeProviderPair(fnArgs.pair))

InitPair == ServiceAtRest /\ fnArgs \in PairArgs /\ fnResult = None
NextPair == EvaluatePair
SpecPair == InitPair /\ [][NextPair]_vars

\* the pairs of the cluster analysis: a shared address only ("address"), one
\* shared patient and a common service date ("patients"), or a shared
\* address and a common service date ("facility")
PairOfKind(provider1Id, provider2Id, kind) ==
    ProviderPair(provider1Id, provider2Id, kind \in {"address", "facility"}, FALSE,
                 IF kind = "patients" THEN 1 ELSE 0, kind \in {"patients", "facility"})

ProviderConnection(provider1Id, provider2Id, kind) ==
    analyzeProviderPair(PairOfKind(provider1Id, provider2Id, kind))[1]

\* the loops of analyzeProviderConnections over the pairs i < j;
\* kinds[{p, q}] is "none" when analyzeProviderPair returns null
RECURSIVE PairScan(_, _, _, _, _)
PairScan(providers, kinds, i, j, connections) ==
    IF i > Len(providers) THEN connections
    ELSE IF j > Len(providers) THEN PairScan(providers, kinds, i + 1, i + 2, connections)
    ELSE IF kinds[{providers[i].id, providers[j].id}] = "none"
         THEN PairScan(providers, kinds, i, j + 1, connections)
         ELSE PairScan(providers, kinds, i, j + 1,
                       Append(connections,
                              ProviderConnection(providers[i].id, providers[j].id,
                                                 kinds[{providers[i].id, providers[j].id}])))

analyzeProviderConnections(providers, kinds) == PairScan(providers, kinds, 1, 2, <<>>)

\* only the connections that start at the provider
ConnectedFromFirst(connections, currentId) ==
    SelectSeq(connections, LAMBDA c : c.provider1Id = currentId)

\* connections.filter(c => c.provider1Id === currentId || c.provider2Id === currentId)
ConnectedConnections(connections, currentId) ==
    SelectSeq(connections,
              LAMBDA c : c.provider1Id = currentId \/ c.provider2Id = currentId)

NextId(connection, currentId) ==
    IF connection.provider1Id = currentId THEN connection.provider2Id
    ELSE connection.provider1Id

\* the traversal follows a connection with strength >= 30
FollowsFrom30(connection) == connection.strength >= 30

\* connection.strength > 30
Follows(connection) == connection.strength > 30

\* the for loop over connectedConnections: the ids pushed on toProcess
RECURSIVE Pushed(_, _, _, _)
Pushed(connected, currentId, visited, toProcess) ==
    IF connected = <<>> THEN toProcess
    ELSE Pushed(Tail(connected), currentId, visited,
                IF NextId(Head(connected), currentId) \notin visited /\ Follows(Head(connected))
                THEN Append(toProcess, NextId(Head(connected), currentId))
                ELSE toProcess)

\* allProviders.find(p => p.id === currentId), as the list of what was found
Found(allProviders, currentId) ==
    LET found == SelectSeq(allProviders, LAMBDA p : p.id = currentId)
    IN IF found = <<>> THEN <<>> ELSE <<Head(found)>>

\* the while loop of buildCluster; walk.toProcess is the stack, popped at its end
RECURSIVE ClusterWalk(_, _, _)
ClusterWalk(walk, allProviders, connections) ==
    IF walk.toProcess = <<>> THEN walk
    ELSE LET currentId == walk.toProcess[Len(walk.toProcess)]
             rest == SubSeq(walk.toProcess, 1, Len(walk.toProcess) - 1)
         IN IF currentId \in walk.visited \/ currentId \in walk.processedProviders
            THEN ClusterWalk([walk EXCEPT !.toProcess = rest], allProviders, connections)
            ELSE ClusterWalk(
                   [toProcess |-> Pushed(ConnectedConnections(connections, currentId),
                                         currentId, walk.visited \cup {currentId}, rest),
                    visited |-> walk.visited \cup {currentId},
                    processedProviders |-> walk.processedProviders \cup {currentId},
                    clusterProviders |-> walk.clusterProviders \o Found(allProviders, currentId),
                    clusterConnections |->
                        walk.clusterConnections \o ConnectedConnections(connections, currentId)],
                   allProviders, connections)

RECURSIVE SumOf(_, _)
SumOf(rows, field) ==
    IF rows = <<>> THEN 0 ELSE Head(rows)[field] + SumOf(Tail(rows), field)

RECURSIVE SumOfRisk(_)
SumOfRisk(providers) ==
    IF providers = <<>> THEN Whole(0)
    ELSE Plus(Head(providers).riskScore, SumOfRisk(Tail(providers)))

SuspiciousCount(connections) == Len(SelectSeq(connections, LAMBDA c : c.isSuspicious))

identifyClusterPatterns(providers, connections) ==
    (IF Len(providers) > 5 THEN <<"LARGE_NETWORK">> ELSE <<>>)
    \o (IF 2 * Len(SelectSeq(providers, LAMBDA p : Greater(p.riskScore, Whole(70))))
              > Len(providers)
        THEN <<"HIGH_RISK_CONCENTRATION">> ELSE <<>>)
    \o (IF 10 * SuspiciousCount(connections) > 6 * Len(connections)
        THEN <<"SUSPICIOUS_NETWORK_STRUCTURE">> ELSE <<>>)

RECURSIVE Distinct(_, _)
Distinct(items, seen) ==
    IF items = <<>> THEN seen
    ELSE Distinct(Tail(items),
                  IF Includes(seen, Head(items)) THEN seen ELSE Append(seen, Head(items)))

RECURSIVE AllIndicators(_)
AllIndicators(connections) ==
    IF connections = <<>> THEN <<>>
    ELSE Head(connections).indicators \o AllIndicators(Tail(connections))

identifyFraudIndicators(connections) == Distinct(AllIndicators(connections), <<>>)

\* totalClaims || 1
OrOne(n) == IF n = 0 THEN 1 ELSE n

\* buildCluster after the traversal: null for fewer than 2 providers
ClusterOf(clusterProviders, clusterConnections) ==
    IF Len(clusterProviders) < 2 THEN None
    ELSE Some([id |-> <<"cluster", clusterProviders[1].id>>,
               providers |-> clusterProviders,
               connections |-> clusterConnections,
               clusterRiskScore |->
                   MathMax(MathMax(Over(SumOfRisk(clusterProviders),
                                        Whole(Len(clusterProviders))),
                                   Times(Ratio(SuspiciousCount(clusterConnections),
                                               Len(clusterConnections)), Whole(100))),
                           Times(Ratio(SumOf(clusterProviders, "flaggedClaims"),
                                       OrOne(SumOf(clusterProviders, "totalClaims"))),
                                 Whole(100))),
               suspiciousPatterns |-> identifyClusterPatterns(clusterProviders,
                                                              clusterConnections),
               fraudIndicators |-> identifyFraudIndicators(clusterConnections),
               totalBilled |-> SumOf(clusterProviders, "totalBilled"),
               flaggedClaims |-> SumOf(clusterProviders, "flaggedClaims")])

Walked(walk) ==
    [cluster |-> ClusterOf(walk.clusterProviders, walk.clusterConnections),
     processedProviders |-> walk.processedProviders]

\* returns the cluster (or null) and the processedProviders set it updated
buildCluster(startProvider, allProviders, connections, processedProviders) ==
    Walked(ClusterWalk([toProcess |-> <<startProvider.id>>,
                        visited |-> {},
                        processedProviders |-> processedProviders,
                        clusterProviders |-> <<>>,
                        clusterConnections |-> <<>>],
                       allProviders, connections))

Kept(built, clusters) ==
    IF built.cluster # None /\ Greater(built.cluster[1].clusterRiskScore, Whole(60))
    THEN Append(clusters, built.cluster[1]) ELSE clusters

\* the for loop of identifySuspiciousClusters
RECURSIVE ClusterScan(_, _, _, _, _)
ClusterScan(providerNodes, connections, k, processedProviders, clusters) ==
    IF k > Len(providerNodes) THEN clusters
    ELSE IF providerNodes[k].id \in processedProviders
         THEN ClusterScan(providerNodes, connections, k + 1, processedProviders, clusters)
         ELSE ClusterScan(providerNodes, connections, k + 1,
                          buildCluster(providerNodes[k], providerNodes, connections,
                                       processedProviders).processedProviders,
                          Kept(buildCluster(providerNodes[k], providerNodes, connections,
                                            processedProviders), clusters))

identifySuspiciousClusters(providerNodes, connections) ==
    ClusterScan(providerNodes, connections, 1, {}, <<>>)

NetworkProviderIds == {"a", "b", "c", "d"}

\* providers a and d have all their claims flagged, b and c none
NetworkProvider(id) ==
    [id |-> id, totalClaims |-> 2, flaggedClaims |-> IF id \in {"a", "d"} THEN 2 ELSE 0,
     totalBilled |-> 200]

ProviderPairs == { pair \in SUBSET NetworkProviderIds : Cardinality(pair) = 2 }

\* the active providers in the order the data store returns them
ProviderOrders ==
    { [i \in 1..Cardinality(NetworkProviderIds) |-> NetworkProvider(order[i])] :
         order \in { o \in [1..Cardinality(NetworkProviderIds) -> NetworkProviderIds] :
                        \A i, j \in DOMAIN o : i # j => o[i] # o[j] } }

ClusterArgs ==
    { [fn |-> "identifySuspiciousClusters", providers |-> p, kinds |-> k] :
         p \in ProviderOrders, k \in [ProviderPairs -> {"none", "address", "patients"}] }

ProviderNodes(providers) == [i \in 1..Len(providers) |-> buildProviderNode(providers[i])]

\* lines 618-624 of analyzeProviderNetwork: nodes, connections, clusters
EvaluateClusters ==
    /\ Evaluating("identifySuspiciousClusters")
    /\ Return([connections |-> analyzeProviderConnections(fnArgs.providers, fnArgs.kinds),
               clusters |->
                   identifySuspiciousClusters(
                       ProviderNodes(fnArgs.providers),
                       analyzeProviderConnections(fnArgs.providers, fnArgs.kinds))])

InitClusters == ServiceAtRest /\ fnArgs \in ClusterArgs /\ fnResult = None
NextClusters == EvaluateClusters
SpecClusters == InitClusters /\ [][NextClusters]_vars

(***************************************************************************)
(* RiskScoringEngine.batchRiskScoring (part_014, lines 173-201): the ids   *)
(* are scored in groups of batchSize; every scoring of a group is started  *)
(* when the group is entered, each settles on its own, and the loop        *)
(* resumes once Promise.all has every result of the group.                 *)
(***************************************************************************)
batchSize == 10
MaxClaimIds == 20

\* the claim rows getClaimData finds; every other id is unknown to the store
ScoredClaims == {1, 2, 11}

\* the risk factors extracted for a stored claim
FactorsOf(claimId) ==
    [providerHistory |->
         CHOOSE h \in ProviderHistories : h.flaggedClaims = (IF claimId = 1 THEN 0 ELSE 5),
     claimCharacteristics |->
         CHOOSE c \in ClaimCharacteristics : c.totalAmount = Whole(1000),
     patientProfile |-> CHOOSE p \in PatientProfiles : TRUE,
     networkRisk |-> CHOOSE n \in NetworkRisks : TRUE,
     behavioralPatterns |-> CHOOSE b \in BehavioralPatterns : TRUE]

\* the three external models all fail
AllModelsFail ==
    [openai |-> [failed |-> TRUE, scoreDigits |-> <<>>],
     claude |-> [failed |-> TRUE, scoreDigits |-> <<>>],
     google |-> [failed |-> TRUE, scoreDigits |-> <<>>]]

\* what calculateClaimRisk does for each stored claim when no query rejects
Scorings(lastDeclarationWins) ==
    [claimId \in ScoredClaims |->
        RiskScoringEngine_calculateClaimRisk(FactorsOf(claimId), AllModelsFail,
                                             lastDeclarationWins)]

\* how this.calculateClaimRisk(claimId) can end: it throws for an id
\* getClaimData does not find (extractRiskFactors reads claim.provider of
\* null) and when a query rejects, and otherwise ends as the scoring does
ScoringOutcomes(claimId, scorings) ==
    IF claimId \notin ScoredClaims
    THEN { [threw |-> TRUE, score |-> None] }
    ELSE { [threw |-> TRUE, score |-> None], scorings[claimId] }

\* what the async callback of batch.map resolves to: null after the catch
Settled(claimId, outcome) ==
    IF outcome.threw THEN None
    ELSE Some([claimId |-> claimId, riskScore |-> outcome.score[1]])

\* the promise of position p before it is created, while it runs, and after
Unstarted == [state |-> "unstarted", value |-> None]
Pending == [state |-> "pending", value |-> None]
Fulfilled(value) == [state |-> "fulfilled", value |-> value]

\* a slice one position longer than the step of the loop
SliceOfEleven(i, n) == (i + 1)..Min(i + batchSize + 1, n)

\* the positions of claimIds.slice(i, i + batchSize), for n ids
Slice(i, n) == (i + 1)..Min(i + batchSize, n)

\* results.set(key, value)
MapSet(map, key, value) ==
    [k \in DOMAIN map \cup {key} |-> IF k = key THEN value ELSE map[k]]

\* the forEach over batchResults that stops at the first null
RECURSIVE CollectedUntilNull(_, _, _, _)
CollectedUntilNull(results, promises, p, to) ==
    IF p > to \/ promises[p].value = None THEN results
    ELSE CollectedUntilNull(MapSet(results, promises[p].value[1].claimId,
                                   promises[p].value[1].riskScore),
                            promises, p + 1, to)

\* batchResults.forEach(result => { if (result) results.set(...) })
RECURSIVE Collected(_, _, _, _)
Collected(results, promises, p, to) ==
    IF p > to THEN results
    ELSE Collected(IF promises[p].value = None THEN results
                   ELSE MapSet(results, promises[p].value[1].claimId,
                               promises[p].value[1].riskScore),
                   promises, p + 1, to)

\* const results = new Map(); let i = 0
Entered(claimIds) ==
    [pc |-> "for", i |-> 0, promises |-> [p \in 1..Len(claimIds) |-> Unstarted],
     results |-> <<>>]

BatchUnchanged ==
    UNCHANGED <<now, blockScoped, claims, claimLineItems, fraudAlerts, requests, last,
                fnArgs, calls, rateLimitStore, limited>>

\* the call: the map is created and the loop variable set
CallBatch ==
    /\ Evaluating("batchRiskScoring")
    /\ batch = NoBatch
    /\ batch' = Entered(fnArgs.claimIds)
    /\ UNCHANGED fnResult
    /\ BatchUnchanged

\* one iteration up to `await Promise.all`: every callback of batch.map has
\* called calculateClaimRisk for its id
EnterGroup ==
    /\ batch.pc = "for"
    /\ batch.i < Len(fnArgs.claimIds)
    /\ batch' = [batch EXCEPT
                   !.pc = "all",
                   !.promises = [p \in DOMAIN batch.promises |->
                                    IF p \in Slice(batch.i, Len(fnArgs.claimIds))
                                    THEN Pending ELSE batch.promises[p]]]
    /\ UNCHANGED fnResult
    /\ BatchUnchanged

\* the scoring of position p ends and its callback resolves
SettleScoring(p) ==
    /\ batch.pc = "all"
    /\ p \in DOMAIN batch.promises
    /\ batch.promises[p] = Pending
    /\ \E outcome \in ScoringOutcomes(fnArgs.claimIds[p], fnArgs.scorings) :
          batch' = [batch EXCEPT
                      !.promises[p] = Fulfilled(Settled(fnArgs.claimIds[p], outcome))]
    /\ UNCHANGED fnResult
    /\ BatchUnchanged

\* Promise.all resolves: the results of the group are stored and i advances
ResumeGroup ==
    /\ batch.pc = "all"
    /\ \A p \in Slice(batch.i, Len(fnArgs.claimIds)) : batch.promises[p].state = "fulfilled"
    /\ batch' = [batch EXCEPT
                   !.pc = "for",
                   !.i = batch.i + batchSize,
                   !.results = Collected(batch.results, batch.promises, batch.i + 1,
                                         Min(batch.i + batchSize, Len(fnArgs.claimIds)))]
    /\ UNCHANGED fnResult
    /\ BatchUnchanged

\* the loop ends: return results
ReturnResults ==
    /\ batch.pc = "for"
    /\ batch.i >= Len(fnArgs.claimIds)
    /\ batch' = [batch EXCEPT !.pc = "returned"]
    /\ fnResult' = Some(batch.results)
    /\ BatchUnchanged

\* the id lists tried: none, one short of a group, a full group, more
ClaimIdLists ==
    { [p \in 1..n |-> p] : n \in {0, batchSize - 1, batchSize, MaxClaimIds} }

BatchArgs ==
    { [fn |-> "batchRiskScoring", claimIds |-> ids, scorings |-> Scorings(binding)] :
         ids \in ClaimIdLists, binding \in BOOLEAN }

InitBatch == ServiceAtRest /\ fnArgs \in BatchArgs /\ fnResult = None

NextBatch ==
    \/ CallBatch
    \/ EnterGroup
    \/ \E p \in 1..MaxClaimIds : SettleScoring(p)
    \/ ResumeGroup
    \/ ReturnResults

SpecBatch == InitBatch /\ [][NextBatch]_vars

\* every continuation that is ready runs, and every query settles
SpecBatchFair == SpecBatch /\ WF_vars(NextBatch)

(***************************************************************************)
(* UpcodingDetector.analyzeProviderProfile (upcoding-detector.ts, lines    *)
(* 167-218): the coding profile computed from a provider's claims.         *)
(***************************************************************************)
MaxProfileClaims == 3

EM_CODES ==
    {"99201", "99202", "99203", "99204", "99205",
     "99211", "99212", "99213", "99214", "99215"}

complexityMap ==
    [code \in EM_CODES |->
        CASE code \in {"99201", "99211"} -> 1
          [] code \in {"99202", "99212"} -> 2
          [] code \in {"99203", "99213"} -> 3
          [] code \in {"99204", "99214"} -> 4
          [] OTHER -> 5]

\* claims.flatMap(claim => claim.claimLineItems.filter(E&M).map(procedureCode))
RECURSIVE EmCodesOf(_)
EmCodesOf(history) ==
    IF history = <<>> THEN <<>>
    ELSE SelectSeq(ProcedureCodes(Head(history).claimLineItems), LAMBDA code : code \in EM_CODES)
         \o EmCodesOf(Tail(history))

\* the callback of emCodes.filter at line 186: it returns the length of the
\* array literal, whatever the code is, and filter keeps what is truthy
HighLevelLiteral == <<"99214", "99215", "99204", "99205">>
KeepsCode(code) == Len(HighLevelLiteral) # 0

\* [modifier1..modifier4].filter(Boolean) of every line item, flattened
ItemModifiers(item) ==
    SelectSeq(<<item.modifier1, item.modifier2, item.modifier3, item.modifier4>>,
              LAMBDA modifier : modifier # "undefined")

RECURSIVE ClaimModifiers(_)
ClaimModifiers(lineItems) ==
    IF lineItems = <<>> THEN <<>>
    ELSE ItemModifiers(Head(lineItems)) \o ClaimModifiers(Tail(lineItems))

RECURSIVE AllModifiers(_)
AllModifiers(history) ==
    IF history = <<>> THEN <<>>
    ELSE ClaimModifiers(Head(history).claimLineItems) \o AllModifiers(Tail(history))

\* allModifiers.forEach(modifier => modifierUsage[modifier] = (... || 0) + 1)
CountedModifiers(allModifiers) ==
    [modifier \in {allModifiers[i] : i \in 1..Len(allModifiers)} |->
        Cardinality({i \in 1..Len(allModifiers) : allModifiers[i] = modifier})]

AverageOf(complexities) ==
    IF Len(complexities) > 0
    THEN Over(Whole(SumSeq(complexities)), Whole(Len(complexities)))
    ELSE Whole(3)

FrequencyOf(highLevelCodes, emCodes) ==
    IF Len(emCodes) > 0 THEN Over(Whole(Len(highLevelCodes)), Whole(Len(emCodes)))
    ELSE Whole(0)

ProfileOf(providerId, emCodes, history, specialty) ==
    ProviderCodingProfile(providerId,
                          AverageOf([i \in 1..Len(emCodes) |-> complexityMap[emCodes[i]]]),
                          FrequencyOf(SelectSeq(emCodes, KeepsCode), emCodes),
                          CountedModifiers(AllModifiers(history)),
                          specialty)

\* analyzeProviderProfile(providerId, claims), with the specialty of the
\* provider row (GENERAL_PRACTICE when the row or the field is missing)
analyzeProviderProfile(providerId, history, specialty) ==
    ProfileOf(providerId, EmCodesOf(history), history, specialty)

\* the claims of a history: an office visit of level 3, one of level 5 with
\* modifier 25, a new-patient visit of level 4 beside an endoscopy, and a
\* claim without any E&M code
ProfileItem(code, modifier) ==
    [procedureCode |-> code, modifier1 |-> modifier, modifier2 |-> "undefined",
     modifier3 |-> "undefined", modifier4 |-> "undefined"]

ProfileClaims ==
    { [claimLineItems |-> <<ProfileItem("99213", "undefined")>>],
      [claimLineItems |-> <<ProfileItem("99215", "25")>>],
      [claimLineItems |-> <<ProfileItem("99204", "undefined"), ProfileItem("43239", "59")>>],
      [claimLineItems |-> <<ProfileItem("80053", "undefined")>>] }

ProfileHistories == UNION { [1..n -> ProfileClaims] : n \in 0..MaxProfileClaims }

ProfileArgs ==
    [fn : {"analyzeProviderProfile"}, claims : ProfileHistories,
     specialty : {"GENERAL_PRACTICE", "CARDIOLOGY"}]

EvaluateProfile ==
    /\ Evaluating("analyzeProviderProfile")
    /\ Return(analyzeProviderProfile("pr1", fnArgs.claims, fnArgs.specialty))

InitProfile == ServiceAtRest /\ fnArgs \in ProfileArgs /\ fnResult = None
NextProfile == EvaluateProfile
SpecProfile == InitProfile /\ [][NextProfile]_vars

(***************************************************************************)
(* The risk metrics of a detection (upcoding-detector.ts, lines 83-96 and  *)
(* 398-415), for every selection of the patterns of UPCODING_PATTERNS.     *)
(***************************************************************************)
PatternNames == {UPCODING_PATTERNS[i].pattern : i \in 1..Len(UPCODING_PATTERNS)}

\* the patterns detectUpcodingPatterns pushes when exactly these match
MatchedPatterns(names) ==
    SelectSeq(UPCODING_PATTERNS, LAMBDA pattern : pattern.pattern \in names)

MetricsArgs ==
    { [fn |-> "calculateRiskMetrics", patterns |-> MatchedPatterns(names), specialty |-> s] :
         names \in SUBSET PatternNames, s \in {"GENERAL_PRACTICE", "CARDIOLOGY"} }

EvaluateMetrics ==
    /\ Evaluating("calculateRiskMetrics")
    /\ Return(Detection(fnArgs.patterns,
                        ProviderCodingProfile("pr1", Whole(3), Whole(0), <<>>,
                                              fnArgs.specialty)))

InitMetrics == ServiceAtRest /\ fnArgs \in MetricsArgs /\ fnResult = None
NextMetrics == EvaluateMetrics
SpecMetrics == InitMetrics /\ [][NextMetrics]_vars

(***************************************************************************)
(* PhantomBillingDetector.analyzeTimeConflicts (phantom-billing-           *)
(* detector.ts, lines 320-367) and the TIME_CONFLICT pattern (484-485).    *)
(***************************************************************************)
\* the keys of claimsByDate in insertion order
RECURSIVE DateKeys(_, _)
DateKeys(providerClaims, keys) ==
    IF providerClaims = <<>> THEN keys
    ELSE DateKeys(Tail(providerClaims),
                  IF Includes(keys, Head(providerClaims).serviceDate) THEN keys
                  ELSE Append(keys, Head(providerClaims).serviceDate))

\* claimsByDate[dateKey]
ClaimsOfDate(providerClaims, dateKey) ==
    SelectSeq(providerClaims, LAMBDA claim : claim.serviceDate = dateKey)

\* dateClaims.reduce over the units of every line item
RECURSIVE TotalUnits(_)
TotalUnits(dateClaims) ==
    IF dateClaims = <<>> THEN 0
    ELSE ClaimUnits(Head(dateClaims).claimLineItems) + TotalUnits(Tail(dateClaims))

\* the two tests of the forEach over Object.entries(claimsByDate)
IsTimeConflict(dateClaims) == Len(dateClaims) > 1 /\ TotalUnits(dateClaims) > 8

OverlappingService(date, dateClaims) ==
    [date |-> date, timeSlot |-> "FULL_DAY",
     conflictingClaims |-> [i \in 1..Len(dateClaims) |-> dateClaims[i].id],
     patientCount |-> Cardinality({dateClaims[i].patientId : i \in 1..Len(dateClaims)})]

TimeConflicts(providerClaims, conflictDates) ==
    [overlappingServices |->
         [i \in 1..Len(conflictDates) |->
             OverlappingService(conflictDates[i],
                                ClaimsOfDate(providerClaims, conflictDates[i]))],
     conflictScore |-> IF Len(conflictDates) > 0 THEN 90 ELSE 0,
     timeImpossibilities |->
         [i \in 1..Len(conflictDates) |->
             [date |-> conflictDates[i],
              totalUnits |-> TotalUnits(ClaimsOfDate(providerClaims, conflictDates[i]))]]]

analyzeTimeConflicts(providerClaims) ==
    TimeConflicts(providerClaims,
                  SelectSeq(DateKeys(providerClaims, <<>>),
                            LAMBDA date : IsTimeConflict(ClaimsOfDate(providerClaims, date))))

\* evaluatePhantomPattern, case 'TIME_CONFLICT'
TimeConflict(timeConflictAnalysis) == timeConflictAnalysis.conflictScore > 70

\* the claims tried: 4, 8 or 9 units in one line item, or 5 and 4 in two
TimeUnitLists == { <<4>>, <<8>>, <<9>>, <<5, 4>> }

TimeClaims ==
    { [serviceDate |-> d, patientId |-> IF Len(u) = 1 THEN "pt1" ELSE "pt2",
       claimLineItems |-> [i \in 1..Len(u) |-> [units |-> u[i]]]] :
         d \in VolumeDates, u \in TimeUnitLists }

\* the rows with their ids
WithIds(rows) == [i \in 1..Len(rows) |-> [id |-> i] @@ rows[i]]

TimeArgs ==
    { [fn |-> "analyzeTimeConflicts", providerClaims |-> WithIds(c)] :
         c \in UNION { [1..n -> TimeClaims] : n \in 0..MaxVolumeClaims } }

\* lines 112 and 117-126 of detectPhantomBilling: the time-conflict analysis
\* and the evaluation of the TIME_CONFLICT pattern on it
EvaluateTimeConflicts ==
    /\ Evaluating("analyzeTimeConflicts")
    /\ Return([timeConflictAnalysis |-> analyzeTimeConflicts(fnArgs.providerClaims),
               timeConflict |-> TimeConflict(analyzeTimeConflicts(fnArgs.providerClaims))])

InitTimeConflicts == ServiceAtRest /\ fnArgs \in TimeArgs /\ fnResult = None
NextTimeConflicts == EvaluateTimeConflicts
SpecTimeConflicts == InitTimeConflicts /\ [][NextTimeConflicts]_vars

(***************************************************************************)
(* ProviderNetworkAnalyzer: fraud rings                                    *)
(***************************************************************************)
FRAUD_RING_PATTERNS ==
    <<[name |-> "REFERRAL_MILL",
       indicators |-> <<"CIRCULAR_REFERRALS", "HIGH_VOLUME_REFERRALS", "UNNECESSARY_SERVICES">>,
       minProviders |-> 3, riskScore |-> 90],
      [name |-> "SHARED_FACILITY_SCHEME",
       indicators |-> <<"SHARED_ADDRESS", "COORDINATED_BILLING", "PATTERN_ANOMALIES">>,
       minProviders |-> 4, riskScore |-> 85],
      [name |-> "KICKBACK_RING",
       indicators |-> <<"REFERRAL_CONCENTRATION", "HIGH_VALUE_SERVICES", "PATIENT_SHARING">>,
       minProviders |-> 2, riskScore |-> 95],
      [name |-> "IDENTITY_THEFT_RING",
       indicators |-> <<"FAKE_PATIENTS", "GEOGRAPHIC_SPREAD", "COORDINATED_BILLING">>,
       minProviders |-> 3, riskScore |-> 88]>>

\* pattern.indicators.filter(indicator => cluster.fraudIndicators.includes(indicator))
MatchingIndicators(cluster, pattern) ==
    SelectSeq(pattern.indicators, LAMBDA indicator : Includes(cluster.fraudIndicators, indicator))

matchesFraudRingPattern(cluster, pattern) ==
    IF Len(cluster.providers) < pattern.minProviders THEN FALSE
    ELSE Len(MatchingIndicators(cluster, pattern)) >= 2

FraudRing(cluster, pattern) ==
    [providers |-> [i \in 1..Len(cluster.providers) |-> cluster.providers[i].id],
     pattern |-> pattern.name,
     confidence |-> pattern.riskScore,
     totalAmount |-> cluster.totalBilled]

\* the two nested for loops of detectFraudRings
RECURSIVE RingScan(_, _, _, _)
RingScan(clusters, k, n, fraudRings) ==
    IF k > Len(clusters) THEN fraudRings
    ELSE IF n > Len(FRAUD_RING_PATTERNS) THEN RingScan(clusters, k + 1, 1, fraudRings)
    ELSE RingScan(clusters, k, n + 1,
                  IF matchesFraudRingPattern(clusters[k], FRAUD_RING_PATTERNS[n])
                  THEN Append(fraudRings, FraudRing(clusters[k], FRAUD_RING_PATTERNS[n]))
                  ELSE fraudRings)

detectFraudRings(clusters) == RingScan(clusters, 1, 1, <<>>)

\* nodes, connections, clusters and fraud rings of analyzeProviderNetwork;
\* the connections are kept next to the result
analyzeProviderNetwork(providers, kinds) ==
    LET connections == analyzeProviderConnections(providers, kinds)
        clusters == identifySuspiciousClusters(ProviderNodes(providers), connections)
    IN [totalProviders |-> Len(providers),
        connections |-> connections,
        suspiciousClusters |-> clusters,
        suspiciousConnections |-> SelectSeq(connections, LAMBDA c : c.isSuspicious),
        fraudRings |-> detectFraudRings(clusters)]

NetworkArgs ==
    { [fn |-> "analyzeProviderNetwork", providers |-> p, kinds |-> k] :
         p \in ProviderOrders,
         k \in [ProviderPairs -> {"none", "address", "patients", "facility"}] }

EvaluateNetwork ==
    /\ Evaluating("analyzeProviderNetwork")
    /\ Return(analyzeProviderNetwork(fnArgs.providers, fnArgs.kinds))

InitNetwork == ServiceAtRest /\ fnArgs \in NetworkArgs /\ fnResult = None
NextNetwork == EvaluateNetwork
SpecNetwork == InitNetwork /\ [][NextNetwork]_vars

(***************************************************************************)
(* RiskScoringEngine: real-time scoring of a submission                    *)
(***************************************************************************)
MaxLineItems == 8

isUnusualCode(code) == code \in {"99999", "99998", "99997"}

\* lineItems.length > 5 ? 0.7 : 0.3
assessBundlingRisk(lineItems) == IF Len(lineItems) > 5 THEN Ratio(7, 10) ELSE Ratio(3, 10)

RECURSIVE ItemsTotal(_)
ItemsTotal(lineItems) ==
    IF lineItems = <<>> THEN 0
    ELSE Head(lineItems).unitCost * Head(lineItems).units + ItemsTotal(Tail(lineItems))

extractRealTimeRiskFactors(claimSubmission) ==
    [claimCharacteristics |->
        [totalAmount |-> Whole(ItemsTotal(claimSubmission.lineItems)),
         complexity |-> Whole(Len(claimSubmission.lineItems)),
         unusualCodes |-> SelectSeq(claimSubmission.lineItems,
                                    LAMBDA item : isUnusualCode(item.procedureCode)),
         timeDocumentation |-> Whole(0),
         bundlingRisk |-> assessBundlingRisk(claimSubmission.lineItems)]]

\* the amount steps of calculateQuickRiskScore: two separate if statements
QuickAmountRisk(totalAmount) ==
    (IF Greater(totalAmount, Whole(5000)) THEN 30 ELSE 0)
    + (IF Greater(totalAmount, Whole(2000)) THEN 15 ELSE 0)

\* the amount step of the full scoring: if ... else if
TieredAmountRisk(totalAmount) ==
    IF Greater(totalAmount, Whole(5000)) THEN 30
    ELSE IF Greater(totalAmount, Whole(2000)) THEN 15 ELSE 0

calculateQuickRiskScore(factors) ==
    LET characteristics == factors.claimCharacteristics
    IN MathMin(Plus(Plus(Plus(Whole(10 + QuickAmountRisk(characteristics.totalAmount)),
                              MathMin(Times(characteristics.complexity, Whole(3)), Whole(25))),
                         Whole(Len(characteristics.unusualCodes) * 10)),
                    Times(characteristics.bundlingRisk, Whole(20))),
               Whole(100))

getProcessingRecommendation(riskLevel) ==
    IF riskLevel = "CRITICAL" THEN "INVESTIGATE"
    ELSE IF riskLevel = "HIGH" THEN "MANUAL_REVIEW"
    ELSE IF riskLevel = "MEDIUM" THEN "MANUAL_REVIEW"
    ELSE "AUTO_APPROVE"

getImmediateActions(riskLevel) ==
    IF riskLevel = "CRITICAL" THEN <<"Flag for immediate investigation", "Hold payment">>
    ELSE IF riskLevel = "HIGH" THEN <<"Queue for manual review", "Request documentation">>
    ELSE <<>>

calculateRealTimeRisk(claimSubmission) ==
    LET quickScore == calculateQuickRiskScore(extractRealTimeRiskFactors(claimSubmission))
        riskLevel == RiskScoringEngine_determineRiskLevel(quickScore)
    IN [riskScore |-> quickScore,
        riskLevel |-> riskLevel,
        immediateActions |-> getImmediateActions(riskLevel),
        processingRecommendation |-> getProcessingRecommendation(riskLevel)]

\* n line items of 1 unit at the same unit cost, the first u of them with an
\* unusual procedure code
SubmissionOf(n, u, unitCost) ==
    [lineItems |-> [i \in 1..n |-> [procedureCode |-> IF i <= u THEN "99999" ELSE "99213",
                                    unitCost |-> unitCost, units |-> 1]]]

SubmissionUnitCosts == {100, 400, 1000, 2000, 2001, 5000, 5001}

RealTimeArgs ==
    { [fn |-> "calculateRealTimeRisk", claimSubmission |-> SubmissionOf(n, u, c)] :
         n \in 0..MaxLineItems, u \in 0..2, c \in SubmissionUnitCosts }

EvaluateRealTime ==
    /\ Evaluating("calculateRealTimeRisk")
    /\ Return(calculateRealTimeRisk(fnArgs.claimSubmission))

InitRealTime == ServiceAtRest /\ fnArgs \in RealTimeArgs /\ fnResult = None
NextRealTime == EvaluateRealTime
SpecRealTime == InitRealTime /\ [][NextRealTime]_vars

(***************************************************************************)
(* processClaim calls running side by side.  A call gives way at each of   *)
(* its awaits: after prisma.claim.create, after the claimLineItem creates,  *)
(* inside detectPhantomBilling, after the findMany of                      *)
(* detectDuplicateClaims, after the findMany of analyzeProviderPatterns    *)
(* and after prisma.claim.update.                                          *)
(***************************************************************************)
ProcessCall(submission) ==
    [pc |-> "called", submission |-> submission, claim |-> None, lineItems |-> <<>>,
     acc |-> [alerts |-> <<>>, totalRiskScore |-> 0, detectedFraudTypes |-> <<>>],
     duplicates |-> None, rowsAtQuery |-> 0, result |-> None]

\* const claim = await prisma.claim.create(...)
CreateClaim(p) ==
    /\ p \in DOMAIN calls
    /\ calls[p].pc = "called"
    /\ claims' = Append(claims, NewClaim(Len(claims) + 1, calls[p].submission, now))
    /\ calls' = [calls EXCEPT ![p].pc = "created",
                              ![p].claim = Some(NewClaim(Len(claims) + 1,
                                                         calls[p].submission, now))]
    /\ UNCHANGED <<now, blockScoped, claimLineItems, fraudAlerts, requests, last, fnArgs,
                   fnResult, batch, rateLimitStore, limited>>

CreatedLineItems(call) ==
    [i \in 1..Len(call.submission.lineItems) |->
        NewLineItem(call.claim[1].id, call.submission.lineItems[i])]

\* const lineItems = await Promise.all(... prisma.claimLineItem.create ...)
CreateLineItems(p) ==
    /\ p \in DOMAIN calls
    /\ calls[p].pc = "created"
    /\ claimLineItems' = claimLineItems \o CreatedLineItems(calls[p])
    /\ calls' = [calls EXCEPT ![p].pc = "items", ![p].lineItems = CreatedLineItems(calls[p])]
    /\ UNCHANGED <<now, blockScoped, claims, fraudAlerts, requests, last, fnArgs, fnResult,
                   batch, rateLimitStore, limited>>

\* steps 1 to 3 of analyzeClaim; a ReferenceError in detectPhantomBilling
\* rejects the call
AfterPhantom(call, keepsBlockScope) ==
    IF ClaimProcessor_detectPhantomBilling(call.claim[1], call.lineItems, keepsBlockScope).threw
    THEN [call EXCEPT !.pc = "rejected"]
    ELSE [call EXCEPT
            !.pc = "phantom",
            !.acc = Register(
                      Register(
                        Register(call.acc,
                                 ClaimProcessor_detectUpcoding(call.claim[1], call.lineItems),
                                 "UPDATING"),
                        ClaimProcessor_detectUnbundling(call.lineItems), "UNBUNDLING"),
                      ClaimProcessor_detectPhantomBilling(call.claim[1], call.lineItems,
                                                          keepsBlockScope).alert[1],
                      "PHANTOM_BILLING")]

RunDetectors(p) ==
    /\ p \in DOMAIN calls
    /\ calls[p].pc = "items"
    /\ calls' = [calls EXCEPT ![p] = AfterPhantom(calls[p], blockScoped)]
    /\ UNCHANGED <<now, blockScoped, claims, claimLineItems, fraudAlerts, requests, last,
                   fnArgs, fnResult, batch, rateLimitStore, limited>>

\* step 4 of analyzeClaim: the findMany of detectDuplicateClaims is answered
\* from the rows stored at this moment; duplicates keeps the ids it returned
\* and rowsAtQuery how many rows the table had
QueryDuplicates(p) ==
    /\ p \in DOMAIN calls
    /\ calls[p].pc = "phantom"
    /\ calls' = [calls EXCEPT
                   ![p].pc = "duplicates",
                   ![p].duplicates = Some(DuplicateRows(calls[p].claim[1], claims, now)),
                   ![p].rowsAtQuery = Len(claims),
                   ![p].acc = Register(calls[p].acc,
                                       ClaimProcessor_detectDuplicateClaims(
                                           calls[p].claim[1], claims, now),
                                       "DUPLICATE_CLAIM")]
    /\ UNCHANGED <<now, blockScoped, claims, claimLineItems, fraudAlerts, requests, last,
                   fnArgs, fnResult, batch, rateLimitStore, limited>>

\* the end of analyzeClaim, from the provider risk on
AnalysisResult(acc, providerRisk) ==
    [riskScore |-> Max(acc.totalRiskScore, providerRisk),
     riskLevel |-> ClaimProcessor_determineRiskLevel(Max(acc.totalRiskScore, providerRisk)),
     fraudTypes |-> acc.detectedFraudTypes,
     alerts |-> acc.alerts,
     recommendations |->
         ClaimProcessor_generateRecommendations(
             acc.alerts,
             ClaimProcessor_determineRiskLevel(Max(acc.totalRiskScore, providerRisk))),
     approved |-> Approved(Max(acc.totalRiskScore, providerRisk), acc.alerts)]

\* step 5 of analyzeClaim and its return
QueryProviderPatterns(p) ==
    /\ p \in DOMAIN calls
    /\ calls[p].pc = "duplicates"
    /\ calls' = [calls EXCEPT
                   ![p].pc = "analyzed",
                   ![p].result =
                       Some(AnalysisResult(calls[p].acc,
                                           analyzeProviderPatterns(
                                               calls[p].claim[1].providerId, claims, now)))]
    /\ UNCHANGED <<now, blockScoped, claims, claimLineItems, fraudAlerts, requests, last,
                   fnArgs, fnResult, batch, rateLimitStore, limited>>

\* await prisma.claim.update(...), the fraudAlert creates for the alerts of
\* the analysis, and the return
UpdateClaim(p) ==
    /\ p \in DOMAIN calls
    /\ calls[p].pc = "analyzed"
    /\ claims' = [claims EXCEPT ![calls[p].claim[1].id] =
                                    UpdatedClaim(claims[calls[p].claim[1].id],
                                                 calls[p].result[1])]
    /\ fraudAlerts' = fraudAlerts \o NewFraudAlerts(calls[p].claim[1],
                                                    calls[p].result[1].alerts)
    /\ calls' = [calls EXCEPT ![p].pc = "returned"]
    /\ UNCHANGED <<now, blockScoped, claimLineItems, requests, last, fnArgs, fnResult,
                   batch, rateLimitStore, limited>>

\* two calls with the same submission
ParallelCalls ==
    { <<ProcessCall(Submission(b)), ProcessCall(Submission(b))>> : b \in ValidBodies }

InitParallel ==
    /\ now = 0
    /\ blockScoped \in BOOLEAN
    /\ claims \in InitialStores
    /\ claimLineItems = StoredLineItems(claims, InitialLineItems(claims))
    /\ fraudAlerts = <<>>
    /\ requests = 0
    /\ last = Response(0, "", 0, None)
    /\ fnArgs = Idle
    /\ fnResult = None
    /\ batch = NoBatch
    /\ calls \in ParallelCalls
    /\ rateLimitStore = EmptyStore
    /\ limited = NoLimited

NextParallel ==
    \E p \in {1, 2} :
        \/ CreateClaim(p)
        \/ CreateLineItems(p)
        \/ RunDetectors(p)
        \/ QueryDuplicates(p)
        \/ QueryProviderPatterns(p)
        \/ UpdateClaim(p)

SpecParallel == InitParallel /\ [][NextParallel]_vars

(***************************************************************************)
(* PhantomBillingDetector: patient analysis and the detection result       *)
(***************************************************************************)
MaxPatientClaims == 2

\* new Date().getFullYear()
CurrentYear == 2024

PHANTOM_BILLING_PATTERNS ==
    <<[pattern |-> "IMPOSSIBLE_VOLUME", riskScore |-> 95],
      [pattern |-> "GEOGRAPHIC_ANOMALY", riskScore |-> 85],
      [pattern |-> "TIME_CONFLICT", riskScore |-> 90],
      [pattern |-> "PATIENT_IDENTITY_FRAUD", riskScore |-> 75],
      [pattern |-> "PATTERN_ANOMALY", riskScore |-> 70]>>

\* the keys of the patients map in insertion order
PatientKeys(providerClaims) ==
    Distinct([i \in 1..Len(providerClaims) |-> providerClaims[i].patientId], <<>>)

\* Array.from(patients.values()): the patient of the first claim with the
\* key, and the number of claims with it
PatientArray(providerClaims) ==
    [k \in 1..Len(PatientKeys(providerClaims)) |->
        [patient |-> Head(SelectSeq(providerClaims,
                                    LAMBDA c : c.patientId =
                                               PatientKeys(providerClaims)[k])).patient,
         claimCount |-> Len(SelectSeq(providerClaims,
                                      LAMBDA c : c.patientId =
                                                 PatientKeys(providerClaims)[k]))]]

AgeOf(patient) == CurrentYear - patient.dateOfBirth[1]

\* !p.dateOfBirth || !p.address || !p.phoneNumber
MinimalInfo(patient) ==
    patient.dateOfBirth = None \/ patient.address = None \/ patient.phoneNumber = None

VeryElderly(patient) == patient.dateOfBirth # None /\ AgeOf(patient) > 95

PatientAnalysis(patientArray, newPatientRatio) ==
    [newPatientRatio |-> newPatientRatio,
     returningPatientRatio |-> Minus(Whole(1), newPatientRatio),
     suspiciousPatientPatterns |->
         (IF Greater(newPatientRatio, Ratio(8, 10))
          THEN <<"Unusually high new patient ratio">> ELSE <<>>)
         \o (IF 10 * Len(SelectSeq(patientArray, LAMBDA p : VeryElderly(p.patient)))
                   > Len(patientArray)
             THEN <<"Unusual concentration of very elderly patients">> ELSE <<>>),
     identityVerificationFlags |->
         IF 10 * Len(SelectSeq(patientArray, LAMBDA p : MinimalInfo(p.patient)))
               > 2 * Len(patientArray)
         THEN <<"High percentage of patients with incomplete information">> ELSE <<>>]

analyzePatientPatterns(providerClaims) ==
    PatientAnalysis(
        PatientArray(providerClaims),
        IF Len(PatientArray(providerClaims)) > 0
        THEN Ratio(Len(SelectSeq(PatientArray(providerClaims), LAMBDA p : p.claimCount = 1)),
                   Len(PatientArray(providerClaims)))
        ELSE Whole(0))

\* the claims of patients with a city and a state, when the provider has a
\* latitude and a longitude; the select of the provider has no city, so
\* every such patient's city differs from provider.city
analyzeGeographicPatterns(providerClaims, located) ==
    LET suspicious == IF located
                      THEN SelectSeq(providerClaims,
                                     LAMBDA c : c.patient.city # None /\ c.patient.state # None)
                      ELSE <<>>
    IN [maxDistance |-> IF Len(suspicious) > 0 THEN 50 ELSE 0,
        suspiciousLocations |-> suspicious,
        geographicAnomalies |->
            IF ~located THEN <<"Provider location not available">>
            ELSE IF 10 * Len(suspicious) > 3 * Len(providerClaims)
                 THEN <<"High percentage of out-of-area services">> ELSE <<>>]

\* evaluatePhantomPattern, case 'GEOGRAPHIC_ANOMALY'
GeographicAnomaly(geographicAnalysis) ==
    Len(geographicAnalysis.suspiciousLocations) > 5 \/ geographicAnalysis.maxDistance > 100

\* evaluatePhantomPattern, case 'PATIENT_IDENTITY_FRAUD'
PatientIdentityFraud(patientAnalysis) ==
    \/ Len(patientAnalysis.identityVerificationFlags) > 0
    \/ Greater(patientAnalysis.newPatientRatio, Ratio(9, 10))

\* PATTERN_ANOMALY from two suspicious patient patterns on
PatternAnomalyFromTwo(patientAnalysis) == Len(patientAnalysis.suspiciousPatientPatterns) >= 2

\* evaluatePhantomPattern, case 'PATTERN_ANOMALY'
PatternAnomaly(patientAnalysis) == Len(patientAnalysis.suspiciousPatientPatterns) > 2

evaluatePhantomPattern(pattern, analyses) ==
    CASE pattern.pattern = "IMPOSSIBLE_VOLUME" -> ImpossibleVolume(analyses.volumeAnalysis)
      [] pattern.pattern = "GEOGRAPHIC_ANOMALY" -> GeographicAnomaly(analyses.geographicAnalysis)
      [] pattern.pattern = "TIME_CONFLICT" -> TimeConflict(analyses.timeConflictAnalysis)
      [] pattern.pattern = "PATIENT_IDENTITY_FRAUD" ->
             PatientIdentityFraud(analyses.patientAnalysis)
      [] pattern.pattern = "PATTERN_ANOMALY" -> PatternAnomaly(analyses.patientAnalysis)
      [] OTHER -> FALSE

detectPhantomBillingPatterns(analyses) ==
    SelectSeq(PHANTOM_BILLING_PATTERNS, LAMBDA pattern : evaluatePhantomPattern(pattern, analyses))

PhantomBillingDetector_calculateRiskMetrics(patterns) ==
    IF Len(patterns) = 0 THEN [confidence |-> Whole(0), riskLevel |-> "LOW"]
    ELSE LET confidence == Over(Whole(TotalRiskScore(patterns)), Whole(Len(patterns)))
         IN [confidence |-> confidence,
             riskLevel |-> IF AtLeast(confidence, Whole(85)) THEN "CRITICAL"
                           ELSE IF AtLeast(confidence, Whole(70)) THEN "HIGH"
                           ELSE IF AtLeast(confidence, Whole(50)) THEN "MEDIUM"
                           ELSE "LOW"]

PhantomAnalyses(providerClaims, provider) ==
    [volumeAnalysis |-> analyzeVolume(providerClaims, provider),
     geographicAnalysis |-> analyzeGeographicPatterns(providerClaims, provider[1].located),
     timeConflictAnalysis |-> analyzeTimeConflicts(providerClaims),
     patientAnalysis |-> analyzePatientPatterns(providerClaims)]

\* detectPhantomBilling for a provider with claims in the time window
PhantomBillingDetector_detectPhantomBilling(providerClaims, provider) ==
    LET analyses == PhantomAnalyses(providerClaims, provider)
        detectedPatterns == detectPhantomBillingPatterns(analyses)
        metrics == PhantomBillingDetector_calculateRiskMetrics(detectedPatterns)
    IN [isPhantomBilling |-> Greater(metrics.confidence, Whole(70)),
        confidence |-> metrics.confidence,
        riskLevel |-> metrics.riskLevel,
        patterns |-> detectedPatterns,
        volumeAnalysis |-> analyses.volumeAnalysis,
        geographicAnalysis |-> analyses.geographicAnalysis,
        timeConflictAnalysis |-> analyses.timeConflictAnalysis,
        patientAnalysis |-> analyses.patientAnalysis]

\* a patient aged 96, a patient aged 40, and a patient row with no date of
\* birth, address, phone number or city
PatientOfKind(kind) ==
    IF kind = "unknown"
    THEN [dateOfBirth |-> None, address |-> None, phoneNumber |-> None,
          city |-> None, state |-> None]
    ELSE [dateOfBirth |-> Some(IF kind = "elderly" THEN CurrentYear - 96 ELSE CurrentYear - 40),
          address |-> Some("1 Main St"), phoneNumber |-> Some("555-0100"),
          city |-> Some("Springfield"), state |-> Some("IL")]

PatientKinds == {"elderly", "adult", "unknown"}

\* count claims of one patient on 2024-03-01, each with one line item
ClaimsOfPatient(patientId, kind, count, units) ==
    [i \in 1..count |->
        [serviceDate |-> "2024-03-01", patientId |-> patientId,
         patient |-> PatientOfKind(kind), claimLineItems |-> <<[units |-> units]>>]]

\* the first patient has up to MaxPatientClaims claims or 6, the others up
\* to MaxPatientClaims
PatientArgs ==
    { [fn |-> "detectPhantomBilling",
       provider |-> Some([providerType |-> "PHYSICIAN", located |-> located]),
       providerClaims |-> WithIds(ClaimsOfPatient("pt1", k1, n1, units)
                                  \o ClaimsOfPatient("pt2", k2, n2, units)
                                  \o ClaimsOfPatient("pt3", k3, n3, units))] :
         located \in BOOLEAN, units \in {4, 32},
         k1 \in PatientKinds, k2 \in PatientKinds, k3 \in PatientKinds,
         n1 \in (1..MaxPatientClaims) \cup {6}, n2 \in 0..MaxPatientClaims,
         n3 \in 0..MaxPatientClaims }

EvaluatePatients ==
    /\ Evaluating("detectPhantomBilling")
    /\ Return(PhantomBillingDetector_detectPhantomBilling(fnArgs.providerClaims,
                                                          fnArgs.provider))

InitPatients == ServiceAtRest /\ fnArgs \in PatientArgs /\ fnResult = None
NextPatients == EvaluatePatients
SpecPatients == InitPatients /\ [][NextPatients]_vars

(***************************************************************************)
(* lib/rate-limit.ts: createRateLimit.  The limiters share the module's    *)
(* rateLimitStore.  A limiter has no await, so a call is one step.  The    *)
(* clock `now` counts in units of which a window has WindowUnits.          *)
(***************************************************************************)
WindowUnits == 2
LimitRequests == 2
MaxClock == 4
MaxLimiterCalls == 4

\* the configurations passed to createRateLimit, scaled down
RateLimitConfigs ==
    { [name |-> "authRateLimit", windowMs |-> WindowUnits, maxRequests |-> LimitRequests],
      [name |-> "generalRateLimit", windowMs |-> WindowUnits + 1,
       maxRequests |-> LimitRequests + 1] }

LimiterNames == {config.name : config \in RateLimitConfigs}

Req(xRealIp, xForwardedFor, xClientIp, pathname) ==
    [xRealIp |-> xRealIp, xForwardedFor |-> xForwardedFor, xClientIp |-> xClientIp,
     pathname |-> pathname]

\* identifier || x-real-ip || x-forwarded-for?.split(',')[0] || x-client-ip || 'unknown'
ClientId(req, identifier) ==
    IF identifier # None /\ identifier # Some("") THEN identifier[1]
    ELSE IF req.xRealIp # None /\ req.xRealIp # Some("") THEN req.xRealIp[1]
    ELSE IF req.xForwardedFor # None /\ Head(req.xForwardedFor[1]) # ""
         THEN Head(req.xForwardedFor[1])
    ELSE IF req.xClientIp # None /\ req.xClientIp # Some("") THEN req.xClientIp[1]
    ELSE "unknown"

\* `rate_limit:${clientId}:${req.nextUrl.pathname}`
RateLimitKey(req, identifier) ==
    "rate_limit:" \o ClientId(req, identifier) \o ":" \o req.pathname

\* the forEach that deletes the entries with resetTime < now
CleanedUp(store, t) ==
    [k \in {j \in DOMAIN store : ~(store[j].resetTime < t)} |-> store[k]]

\* !entry || entry.resetTime < now
NeedsEntry(store, key, t) == key \notin DOMAIN store \/ store[key].resetTime < t

\* the entry the call works on, a new one when NeedsEntry
EntryOf(store, key, t, config) ==
    IF NeedsEntry(store, key, t) THEN [count |-> 0, resetTime |-> t + config.windowMs]
    ELSE store[key]

\* the limit test with > for >=
ExceededAbove(entry, config) == entry.count > config.maxRequests

\* entry.count >= config.maxRequests
Exceeded(entry, config) == entry.count >= config.maxRequests

\* the store after the call and what the call returns
Limited(store, key, t, config) ==
    IF Exceeded(EntryOf(store, key, t, config), config)
    THEN [store |-> (key :> EntryOf(store, key, t, config)) @@ store,
          success |-> FALSE, status |-> 429]
    ELSE [store |-> (key :> [EntryOf(store, key, t, config) EXCEPT !.count = @ + 1]) @@ store,
          success |-> TRUE, status |-> 200]

\* per key of the store and per limiter, the calls that returned success
\* since the key's entry was made
Successes(store, key, t, config, outcome) ==
    [k \in DOMAIN outcome.store |->
        [n \in LimiterNames |->
            (IF k \in DOMAIN limited.successes /\ ~(k = key /\ NeedsEntry(store, key, t))
             THEN limited.successes[k][n] ELSE 0)
            + (IF k = key /\ n = config.name /\ outcome.success THEN 1 ELSE 0)]]

\* one call of the limiter made by createRateLimit(config)
RateLimit(config, req, identifier) ==
    /\ limited.calls < MaxLimiterCalls
    /\ rateLimitStore' =
           Limited(CleanedUp(rateLimitStore, now), RateLimitKey(req, identifier), now,
                   config).store
    /\ limited' =
           [calls |-> limited.calls + 1,
            successes |->
                Successes(CleanedUp(rateLimitStore, now), RateLimitKey(req, identifier), now,
                          config,
                          Limited(CleanedUp(rateLimitStore, now),
                                  RateLimitKey(req, identifier), now, config)),
            last |-> Some([config |-> config,
                           key |-> RateLimitKey(req, identifier),
                           success |-> Limited(CleanedUp(rateLimitStore, now),
                                               RateLimitKey(req, identifier), now,
                                               config).success,
                           status |-> Limited(CleanedUp(rateLimitStore, now),
                                              RateLimitKey(req, identifier), now,
                                              config).status])]
    /\ UNCHANGED <<now, blockScoped, claims, claimLineItems, fraudAlerts, requests, last,
                   fnArgs, fnResult, batch, calls>>

\* Date.now() moves on
Elapse ==
    /\ now < MaxClock
    /\ now' = now + 1
    /\ UNCHANGED <<blockScoped, claims, claimLineItems, fraudAlerts, requests, last,
                   fnArgs, fnResult, batch, calls, rateLimitStore, limited>>

\* the calls tried: two clients on one path, known by x-real-ip and by the
\* first address of x-forwarded-for, a call with an identifier, and a
\* request without any client header on another path
LimitedRequests ==
    { [req |-> Req(Some("10.0.0.1"), None, None, "/api/auth/login"), identifier |-> None],
      [req |-> Req(None, Some(<<"10.0.0.2", "10.9.9.9">>), None, "/api/auth/login"),
       identifier |-> None],
      [req |-> Req(Some("10.0.0.1"), None, None, "/api/auth/login"),
       identifier |-> Some("user-1")],
      [req |-> Req(None, None, None, "/api/claims"), identifier |-> None] }

InitLimiter == ServiceAtRest /\ fnArgs = Idle /\ fnResult = None

NextLimiter ==
    \/ \E config \in RateLimitConfigs, r \in LimitedRequests :
          RateLimit(config, r.req, r.identifier)
    \/ Elapse

SpecLimiter == InitLimiter /\ [][NextLimiter]_vars

(***************************************************************************)
(* Properties of the claim processor behind POST /api/claims               *)
(***************************************************************************)
Returned == last.result # None
LastResult == last.result[1]
LastClaim == claims[last.claimId[1]]

HasDuplicateAlert(result) ==
    \E i \in 1..Len(result.alerts) : result.alerts[i].type = "DUPLICATE_CLAIM"

\* C2: whenever a returned claim has at least one other claim matching it
\* inside the window, the result carries a DUPLICATE_CLAIM alert with
\* confidence 90 and severity HIGH, fraudTypes contains DUPLICATE_CLAIM,
\* riskScore is at least 90 and approved is false; with no match the result
\* carries no DUPLICATE_CLAIM alert.
C2_DuplicateAlertInResult ==
    Returned =>
        IF DuplicateRows(LastClaim, claims, last.at) # {}
        THEN /\ \E i \in 1..Len(LastResult.alerts) :
                    /\ LastResult.alerts[i].type = "DUPLICATE_CLAIM"
                    /\ LastResult.alerts[i].confidence = 90
                    /\ LastResult.alerts[i].severity = "HIGH"
             /\ Includes(LastResult.fraudTypes, "DUPLICATE_CLAIM")
             /\ LastResult.riskScore >= 90
             /\ ~LastResult.approved
        ELSE ~HasDuplicateAlert(LastResult)

\* the other claims with the provider, patient, service date and billed amount of c
Twins(c) ==
    {i \in 1..Len(claims) :
        /\ i # c.id
        /\ claims[i].providerId = c.providerId
        /\ claims[i].patientId = c.patientId
        /\ claims[i].serviceDate = c.serviceDate
        /\ claims[i].billedAmount = c.billedAmount}

DetectorFlagged ==
    /\ last.trace.duplicate[1].confidence = 90
    /\ last.trace.duplicate[1].severity = "HIGH"

C4_NoClaimLeftPending ==
    \A i \in 1..Len(claims) : claims[i].status # "PENDING"

\* C5: a request whose lineItems is an empty array is answered with a
\* client error (400 when the caller is authenticated), and handling it
\* creates no claim, no line item and no alert, runs no detector and
\* produces no result.
C5_EmptySubmissionRejected ==
    [][(/\ requests' = requests + 1
        /\ last'.request[1].body.lineItems = ArrayOf(<<>>))
       => /\ last'.status \in {400, 401}
          /\ last'.request[1].token = "valid" => last'.status = 400
          /\ UNCHANGED <<claims, claimLineItems, fraudAlerts>>
          /\ last'.claimId = None
          /\ last'.result = None
          /\ last'.trace = NoTrace]_vars

\* C5 witness: an authenticated request with an empty lineItems array was
\* answered 400 "At least one line item is required".
C5_Witness ==
    /\ last.request # None
    /\ last.request[1].token = "valid"
    /\ last.request[1].body.lineItems = ArrayOf(<<>>)
    /\ last.status = 400
    /\ last.error = "At least one line item is required"


(***************************************************************************)
(* Properties of the risk levels                                           *)
(***************************************************************************)
LevelRank(level) ==
    CASE level = "LOW" -> 0 [] level = "MEDIUM" -> 1 [] level = "HIGH" -> 2
      [] level = "CRITICAL" -> 3

\* C6: RiskScoringEngine.determineRiskLevel maps every score in 0..100 to
\* one level: LOW up to 30, MEDIUM from 31 to 60, HIGH from 61 to 80,
\* CRITICAL from 81 (so 30, 31, 60, 61, 80, 81 give LOW, MEDIUM, MEDIUM,
\* HIGH, HIGH, CRITICAL), and no lower score gets a higher level.
C6_EngineLevelsPartition ==
    Evaluated("determineRiskLevel") =>
        LET s == fnArgs.score
            level == fnResult[1].engine
        IN /\ level \in {"LOW", "MEDIUM", "HIGH", "CRITICAL"}
           /\ s.n <= 30 * s.d => level = "LOW"
           /\ (s.n >= 31 * s.d /\ s.n <= 60 * s.d) => level = "MEDIUM"
           /\ (s.n >= 61 * s.d /\ s.n <= 80 * s.d) => level = "HIGH"
           /\ s.n >= 81 * s.d => level = "CRITICAL"
           /\ \A k \in 0..s.n :
                 LevelRank(RiskScoringEngine_determineRiskLevel(Ratio(k, s.d)))
                     <= LevelRank(level)

\* C6 witness: the score 81 has been mapped, to CRITICAL.
C6_Witness ==
    /\ Evaluated("determineRiskLevel")
    /\ fnArgs.score.n = 81 * fnArgs.score.d
    /\ fnResult[1].engine = "CRITICAL"

\* C7: for every integer score in 0..100, ClaimProcessor.determineRiskLevel
\* returns the level RiskScoringEngine.determineRiskLevel returns.
C7_ProcessorLevelMatchesEngine ==
    (Evaluated("determineRiskLevel") /\ fnResult[1].processor # None) =>
        fnResult[1].processor[1] = fnResult[1].engine

(***************************************************************************)
(* Properties of full scoring                                              *)
(***************************************************************************)
WithinPercent(q) == AtLeast(q, Whole(0)) /\ AtLeast(Whole(100), q)

C9_ConfidenceMonotoneInFrequency ==
    Evaluated("detectUpcoding") =>
        AtLeast(fnResult[1].higher.confidence, fnResult[1].lower.confidence)

(***************************************************************************)
(* Properties of the code validator                                        *)
(***************************************************************************)
Permuted(codes, p) == [i \in 1..Len(codes) |-> codes[p[i]]]

\* C10: validateCodeCombination gives every permutation of a code sequence,
\* repeated codes included, the same isValid, warnings list and riskScore.
C10_OrderIndependent ==
    Evaluated("validateCodeCombination") =>
        \A p \in Permutations(1..Len(fnArgs.codes)) :
            validateCodeCombination(Permuted(fnArgs.codes, p)) = fnResult[1]

\* C10 witness: the three endoscopy codes, submitted bundled code first, have
\* been validated: both warnings, riskScore 90.
C10_Witness ==
    /\ Evaluated("validateCodeCombination")
    /\ fnArgs.codes = <<"43235", "43239", "43236">>
    /\ fnResult[1].riskScore = 90
    /\ fnResult[1].warnings = <<"Unbundling endoscopy procedures",
                                "High unbundling risk detected">>
    /\ ~fnResult[1].isValid

(***************************************************************************)
(* Properties of the phantom-billing volume check                          *)
(***************************************************************************)
\* the units of all the provider's claims on one service date
RECURSIVE UnitsOn(_, _)
UnitsOn(providerClaims, date) ==
    IF providerClaims = <<>> THEN 0
    ELSE (IF Head(providerClaims).serviceDate = date
          THEN ClaimUnits(Head(providerClaims).claimLineItems) ELSE 0)
         + UnitsOn(Tail(providerClaims), date)

CapacityOf(provider) ==
    IF provider = None THEN 32 ELSE calculateMaxDailyCapacity(provider[1].providerType)

\* C11: IMPOSSIBLE_VOLUME is matched exactly when the units claimed on some
\* service date, summed over all the provider's claims of that date, exceed
\* the daily capacity of the provider type by more than 50%.  For a
\* PHYSICIAN (32 a day) a date with exactly 32 units is not a suspicious
\* date and does not by itself make volumeExceeded true; a date with 49
\* units is suspicious and IMPOSSIBLE_VOLUME is matched.
C11_ImpossibleVolume ==
    Evaluated("analyzeVolume") =>
        LET capacity == CapacityOf(fnArgs.provider)
            analysis == fnResult[1].volumeAnalysis
            units(d) == UnitsOn(fnArgs.providerClaims, d)
        IN /\ fnResult[1].impossibleVolume
                 <=> \E d \in VolumeDates : 2 * units(d) > 3 * capacity
           /\ capacity = 32 =>
                 \A d \in VolumeDates :
                     /\ units(d) = 32 => d \notin analysis.suspiciousDates
                     /\ units(d) = 49 =>
                            d \in analysis.suspiciousDates /\ fnResult[1].impossibleVolume
           /\ (capacity = 32 /\ \A d \in VolumeDates : units(d) <= 32) =>
                 ~analysis.volumeExceeded

\* C11 witness: a physician's two claims of one date add up to 49 units and
\* IMPOSSIBLE_VOLUME has been matched, while the other date holds exactly 32
\* units and is not suspicious.
C11_Witness ==
    /\ Evaluated("analyzeVolume")
    /\ fnArgs.provider = Some([providerType |-> "PHYSICIAN"])
    /\ Len(fnArgs.providerClaims) = 3
    /\ UnitsOn(fnArgs.providerClaims, "2024-03-01") = 49
    /\ UnitsOn(fnArgs.providerClaims, "2024-03-02") = 32
    /\ fnResult[1].impossibleVolume
    /\ fnResult[1].volumeAnalysis.suspiciousDates = {"2024-03-01"}

(***************************************************************************)
(* Properties of the provider network clusters                             *)
(***************************************************************************)
\* the provider has a connection of strength > 30
StronglyConnected(id, connections) ==
    \E i \in 1..Len(connections) :
        /\ id \in {connections[i].provider1Id, connections[i].provider2Id}
        /\ connections[i].strength > 30

\* C12: every returned cluster has at least 2 providers, and a provider with
\* no connection of strength > 30 is in the providers of no returned
\* cluster, in whatever order the providers are visited.
C12_NoSingletonInCluster ==
    Evaluated("identifySuspiciousClusters") =>
        \A k \in 1..Len(fnResult[1].clusters) :
            LET cluster == fnResult[1].clusters[k] IN
            /\ Len(cluster.providers) >= 2
            /\ \A i \in 1..Len(cluster.providers) :
                   StronglyConnected(cluster.providers[i].id, fnResult[1].connections)

\* C12 witness: provider a is visited first and shares only an address
\* (strength 30) with b, b and c are connected with strength 35; the cluster
\* of b and c has been returned without a.
C12_Witness ==
    /\ Evaluated("identifySuspiciousClusters")
    /\ fnArgs.providers[1].id = "a"
    /\ fnArgs.kinds[{"a", "b"}] = "address"
    /\ fnArgs.kinds[{"b", "c"}] = "patients"
    /\ ~StronglyConnected("a", fnResult[1].connections)
    /\ \E k \in 1..Len(fnResult[1].clusters) :
          {fnResult[1].clusters[k].providers[i].id :
              i \in 1..Len(fnResult[1].clusters[k].providers)} = {"b", "c"}

\* the stored line items of claim i
ItemsOf(i) == SelectSeq(claimLineItems, LAMBDA row : row.claimId = i)

\* the other claims of the last claim's provider created in the last 90
\* days whose line items are all 99215
HighLevelPeers ==
    {i \in 1..Len(claims) :
        /\ i # LastClaim.id
        /\ claims[i].providerId = LastClaim.providerId
        /\ LastClaim.createdAt - claims[i].createdAt <= ProviderWindowDays
        /\ ItemsOf(i) # <<>>
        /\ \A k \in 1..Len(ItemsOf(i)) : ItemsOf(i)[k].procedureCode = "99215"}

\* the last request submitted a single 99215 (1 unit at 150) for a provider
\* with eight such peers
UpcodingScenario ==
    /\ last.claimId # None
    /\ last.request[1].body.lineItems = ArrayOf(HighLevelItems)
    /\ Cardinality(HighLevelPeers) >= 8

\* C13: a submission of a single 99215 (1 unit, unit cost 150) from a
\* provider whose last 90 days hold 8 other 99215-only claims is answered
\* with an upcoding finding of confidence at least 75 and level HIGH or
\* CRITICAL, and processClaim returns approved = false.
C13_UpcodingScenarioNotApproved ==
    UpcodingScenario =>
        /\ Returned
        /\ last.trace.upcoding[1].confidence >= 75
        /\ last.trace.upcoding[1].severity \in {"HIGH", "CRITICAL"}
        /\ LastResult.approved = FALSE

\* the last request submitted a single 99213 (1 unit at 75) for a provider
\* with no other stored claim
CleanScenario ==
    /\ last.claimId # None
    /\ last.request[1].body.lineItems = ArrayOf(CleanItems)
    /\ \A i \in 1..Len(claims) :
           i # LastClaim.id => claims[i].providerId # LastClaim.providerId

\* C14: a submission of a single 99213 (1 unit, unit cost 75) with a clean
\* history is processed to completion: every detector reports confidence
\* 0, the score is below 30, the result carries no alert and approved =
\* true, and the stored claim ends with status APPROVED.
C14_CleanScenarioApproved ==
    CleanScenario =>
        /\ Returned
        /\ last.trace.upcoding[1].confidence = 0
        /\ last.trace.unbundling[1].confidence = 0
        /\ last.trace.phantom[1].confidence = 0
        /\ last.trace.duplicate[1].confidence = 0
        /\ LastResult.riskScore < 30
        /\ LastResult.alerts = <<>>
        /\ LastResult.approved = TRUE
        /\ LastClaim.status = "APPROVED"

\* C15: in every reachable store, every claim whose score has been written
\* has isFlagged = (riskScore > 70), no APPROVED claim is flagged, and
\* every flagged claim has status FLAGGED_FOR_FRAUD.
C15_FlagMatchesScore ==
    \A i \in 1..Len(claims) :
        /\ claims[i].riskScore # None
              => (claims[i].isFlagged <=> claims[i].riskScore[1] > 70)
        /\ claims[i].status = "APPROVED" => ~claims[i].isFlagged
        /\ claims[i].isFlagged => claims[i].status = "FLAGGED_FOR_FRAUD"

\* C15 witness: processClaim has written a score of 30 or more that is not
\* above 70 for the claim it created, left that claim unflagged with
\* status FLAGGED_FOR_FRAUD, and the store also holds a flagged claim.
C15_Witness ==
    /\ Returned
    /\ LastClaim.riskScore # None
    /\ LastClaim.riskScore[1] >= 30
    /\ LastClaim.riskScore[1] <= 70
    /\ ~LastClaim.isFlagged
    /\ LastClaim.status = "FLAGGED_FOR_FRAUD"
    /\ \E i \in 1..Len(claims) : claims[i].isFlagged

(***************************************************************************)
(* Properties of batchRiskScoring                                          *)
(***************************************************************************)
BatchReturned == Evaluated("batchRiskScoring")

\* the positions whose scoring has ended without throwing
ScoredPositions ==
    {p \in DOMAIN batch.promises :
        batch.promises[p].state = "fulfilled" /\ batch.promises[p].value # None}

\* the positions whose scoring has thrown
ThrownPositions ==
    {p \in DOMAIN batch.promises :
        batch.promises[p].state = "fulfilled" /\ batch.promises[p].value = None}

\* the returned map has as its keys exactly the ids whose scoring did not
\* throw, each with the score its scoring returned
ReturnedMapExact ==
    /\ ScoredPositions \cup ThrownPositions = DOMAIN fnArgs.claimIds
    /\ DOMAIN fnResult[1] = {fnArgs.claimIds[p] : p \in ScoredPositions}
    /\ \A p \in ScoredPositions :
           fnResult[1][fnArgs.claimIds[p]] = batch.promises[p].value[1].riskScore

InFlight == {p \in DOMAIN batch.promises : batch.promises[p] = Pending}
GroupOf(p) == (p - 1) \div 10

\* C17: at most 10 scorings are in flight at any time, and no scoring of a
\* later group has started while a scoring of an earlier group is unsettled.
C17_GroupsOfTen ==
    /\ Cardinality(InFlight) <= 10
    /\ \A p, q \in DOMAIN batch.promises :
           (batch.promises[p].state # "unstarted" /\ GroupOf(q) < GroupOf(p))
              => batch.promises[q].state = "fulfilled"

\* C17 witness: the ten scorings of the second group are all in flight.
C17_Witness ==
    /\ batch.i = 10
    /\ Cardinality(InFlight) = 10

\* the last processClaim call ran into a detector that threw: the phantom
\* billing check began after the two checks before it and did not finish
DetectorThrew ==
    /\ last.claimId # None
    /\ last.trace.unbundling # None
    /\ last.trace.phantom = None

\* C18: when a detector throws, the analysis still completes (the failed
\* detector adding nothing to the score) and the exception does not reach
\* the caller of analyzeClaim or processClaim: the call returns a result
\* and the request is answered 200.
C18_DetectorFailureContained ==
    DetectorThrew =>
        /\ Returned
        /\ last.status = 200
        /\ LastClaim.riskScore # None

(***************************************************************************)
(* Properties of the external models in full scoring                       *)
(***************************************************************************)
SameNumber(a, b) == AtLeast(a, b) /\ AtLeast(b, a)

ModelNames ==
    [openai |-> "OpenAI-GPT4", claude |-> "Anthropic-Claude3", google |-> "Google-Gemini"]

\* the models whose call did not fail
ModelsAnswering == {k \in DOMAIN ModelNames : ~fnArgs.responses[k].failed}

\* C19: an external model whose call fails contributes no prediction and
\* every model whose call succeeds contributes one; when every call fails,
\* full scoring still returns, its overallScore is the rule-based weighted
\* score and its confidence is the base value 0.75.
C19_ModelFallback ==
    Evaluated("calculateClaimRisk") =>
        LET predictions == runMLModels(fnArgs.responses) IN
        /\ {predictions[i].model : i \in 1..Len(predictions)}
              = {ModelNames[k] : k \in ModelsAnswering}
        /\ Len(predictions) = Cardinality(ModelsAnswering)
        /\ ModelsAnswering = {} =>
              /\ ~fnResult[1].threw
              /\ SameNumber(fnResult[1].score[1].overallScore,
                            calculateWeightedScore(Breakdown(fnArgs.factors)).overallScore)
              /\ SameNumber(fnResult[1].score[1].confidence, Ratio(75, 100))

(***************************************************************************)
(* Properties of the risk score of a code combination                      *)
(***************************************************************************)
\* the pairs (code, bundled code) that occur together in the validated list
BundledPairs ==
    LET present == {fnArgs.codes[i] : i \in 1..Len(fnArgs.codes)} IN
    {pair \in (present \cap DOMAIN CPT_CODES) \X present :
        Includes(CPT_CODES[pair[1]].bundledCodes, pair[2])}

RECURSIVE PairWeights(_)
PairWeights(pairs) ==
    IF pairs = {} THEN 0
    ELSE LET pair == CHOOSE x \in pairs : TRUE
         IN getBundlingRiskWeight(CPT_CODES[pair[1]].unbundlingRisk)
            + PairWeights(pairs \ {pair})

\* C20: the riskScore validateCodeCombination returns lies in [0,100] and is
\* at least the sum, capped at 100, of the bundling weights (LOW 10, MEDIUM
\* 25, HIGH 40) of the distinct bundled pairs that occur in the list; a
\* list holding a code together with one of its bundled codes never gets
\* riskScore 0.
C20_RiskScoreCoversBundling ==
    Evaluated("validateCodeCombination") =>
        /\ fnResult[1].riskScore \in 0..100
        /\ fnResult[1].riskScore >= Min(PairWeights(BundledPairs), 100)
        /\ BundledPairs # {} => fnResult[1].riskScore # 0

(***************************************************************************)
(* Properties of the provider coding profile                               *)
(***************************************************************************)
\* the E&M line items of the analysed history, as (claim, item) positions
EmPositions ==
    {pos \in (1..Len(fnArgs.claims)) \X (1..2) :
        /\ pos[2] <= Len(fnArgs.claims[pos[1]].claimLineItems)
        /\ fnArgs.claims[pos[1]].claimLineItems[pos[2]].procedureCode \in EM_CODES}

HighLevelPositions ==
    {pos \in EmPositions :
        fnArgs.claims[pos[1]].claimLineItems[pos[2]].procedureCode
            \in {"99204", "99205", "99214", "99215"}}

\* C21: highLevelCodeFrequency of the profile is the number of the E&M line
\* items at levels 4-5 (99204, 99205, 99214, 99215) divided by the number of
\* all E&M line items, and 0 when the history holds no E&M line item.
C21_HighLevelFrequency ==
    Evaluated("analyzeProviderProfile") =>
        IF EmPositions = {}
        THEN SameNumber(fnResult[1].highLevelCodeFrequency, Whole(0))
        ELSE SameNumber(fnResult[1].highLevelCodeFrequency,
                        Ratio(Cardinality(HighLevelPositions), Cardinality(EmPositions)))

(***************************************************************************)
(* Properties of the upcoding risk metrics                                 *)
(***************************************************************************)
\* the fixed weights of the five patterns
PatternWeight ==
    [name \in PatternNames |->
        CASE name = "CONSISTENT_HIGH_LEVEL" -> 75
          [] name = "TIME_DOCUMENTATION_MISMATCH" -> 80
          [] name = "MODIFIER_ABUSE" -> 65
          [] name = "SPECIALTY_DEVIATION" -> 70
          [] OTHER -> 85]

MatchedWeights == [i \in 1..Len(fnArgs.patterns) |-> PatternWeight[fnArgs.patterns[i].pattern]]

\* C22: for every set of matched patterns, confidence is the mean of the
\* matched patterns' weights (0 when none matched), riskLevel is CRITICAL
\* from 80, HIGH from 60, MEDIUM from 40 and LOW below, and isUpcoding holds
\* exactly when confidence is above 60.
C22_MetricsOfMatchedPatterns ==
    Evaluated("calculateRiskMetrics") =>
        LET confidence == fnResult[1].confidence IN
        /\ IF Len(fnArgs.patterns) = 0 THEN SameNumber(confidence, Whole(0))
           ELSE SameNumber(confidence, Ratio(SumSeq(MatchedWeights), Len(fnArgs.patterns)))
        /\ fnResult[1].riskLevel =
              (IF AtLeast(confidence, Whole(80)) THEN "CRITICAL"
               ELSE IF AtLeast(confidence, Whole(60)) THEN "HIGH"
               ELSE IF AtLeast(confidence, Whole(40)) THEN "MEDIUM"
               ELSE "LOW")
        /\ fnResult[1].isUpcoding <=> Greater(confidence, Whole(60))

\* C22 witness: CONSISTENT_HIGH_LEVEL and BUNDLING_EVASION matched: the mean
\* is exactly 80, the level CRITICAL, and isUpcoding holds.
C22_Witness ==
    /\ Evaluated("calculateRiskMetrics")
    /\ Len(fnArgs.patterns) = 2
    /\ fnArgs.patterns[1].pattern = "CONSISTENT_HIGH_LEVEL"
    /\ fnArgs.patterns[2].pattern = "BUNDLING_EVASION"
    /\ fnResult[1].confidence = Whole(80)
    /\ fnResult[1].riskLevel = "CRITICAL"
    /\ fnResult[1].isUpcoding

(***************************************************************************)
(* Properties of the phantom-billing time conflicts                        *)
(***************************************************************************)
FlaggedDates ==
    {fnResult[1].timeConflictAnalysis.timeImpossibilities[i].date :
        i \in 1..Len(fnResult[1].timeConflictAnalysis.timeImpossibilities)}

\* C23: if the units of all the provider's claims on some service date add
\* up to more than 8, however many claims they are spread over (a single
\* claim included), the date is flagged as a time impossibility,
\* conflictScore is 90 and TIME_CONFLICT is matched; if no date exceeds 8
\* units, conflictScore is 0 and TIME_CONFLICT is not matched.
C23_TimeConflictOverEightUnits ==
    Evaluated("analyzeTimeConflicts") =>
        /\ \A d \in VolumeDates :
              UnitsOn(fnArgs.providerClaims, d) > 8 =>
                 /\ d \in FlaggedDates
                 /\ fnResult[1].timeConflictAnalysis.conflictScore = 90
                 /\ fnResult[1].timeConflict
        /\ (\A d \in VolumeDates : UnitsOn(fnArgs.providerClaims, d) <= 8) =>
              /\ fnResult[1].timeConflictAnalysis.conflictScore = 0
              /\ ~fnResult[1].timeConflict

(***************************************************************************)
(* Properties of the pairwise provider analysis                            *)
(***************************************************************************)
\* C25: every connection produced by analyzeProviderPair has a strength
\* within 0..100 and riskScore = min(100, strength + 20) when it is
\* suspicious and min(100, strength) when it is not, for every combination
\* of shared address, shared phone, shared patients, referral frequency and
\* coordinated billing.
C25_ConnectionStrengthBounded ==
    (Evaluated("analyzeProviderPair") /\ fnResult[1] # None) =>
        LET connection == fnResult[1][1] IN
        /\ connection.strength \in 0..100
        /\ connection.riskScore =
              Min(100, IF connection.isSuspicious THEN connection.strength + 20
                       ELSE connection.strength)

(***************************************************************************)
(* Properties of the provider network analysis                             *)
(***************************************************************************)
ClusterMembers(cluster) == {cluster.providers[i].id : i \in 1..Len(cluster.providers)}

\* the providers one connection of strength > 30 away from the given ones
StrongNeighbours(ids, connections) ==
    {id \in NetworkProviderIds :
        \E i \in 1..Len(connections) :
            /\ connections[i].strength > 30
            /\ \/ connections[i].provider1Id \in ids /\ connections[i].provider2Id = id
               \/ connections[i].provider2Id \in ids /\ connections[i].provider1Id = id}

\* the connected component of the given providers over connections of strength > 30
RECURSIVE Component(_, _)
Component(ids, connections) ==
    IF StrongNeighbours(ids, connections) \subseteq ids THEN ids
    ELSE Component(ids \cup StrongNeighbours(ids, connections), connections)

\* C24: the returned clusters are disjoint connected components over the
\* connections of strength > 30: no provider is in more than one returned
\* cluster, and the providers of a returned cluster are exactly the
\* providers joined to any one of them by connections of strength > 30, in
\* whatever order the providers and connections are iterated.
C24_ClustersAreComponents ==
    Evaluated("analyzeProviderNetwork") =>
        LET clusters == fnResult[1].suspiciousClusters IN
        /\ \A k, l \in 1..Len(clusters) :
              k # l => ClusterMembers(clusters[k]) \cap ClusterMembers(clusters[l]) = {}
        /\ \A k \in 1..Len(clusters) :
              /\ Cardinality(ClusterMembers(clusters[k])) = Len(clusters[k].providers)
              /\ \A id \in ClusterMembers(clusters[k]) :
                    Component({id}, fnResult[1].connections) = ClusterMembers(clusters[k])

\* C24 witness: two clusters have been returned whose providers b and c are
\* joined by a connection of strength 30 only, with a provider of the
\* second cluster visited first.
C24_Witness ==
    /\ Evaluated("analyzeProviderNetwork")
    /\ fnArgs.providers[1].id = "c"
    /\ fnArgs.kinds[{"b", "c"}] = "address"
    /\ {ClusterMembers(fnResult[1].suspiciousClusters[k]) :
           k \in 1..Len(fnResult[1].suspiciousClusters)} = {{"a", "b"}, {"c", "d"}}

\* the pattern's indicators found in the cluster's fraud indicators
NamedIndicatorsPresent(cluster, pattern) ==
    {i \in 1..Len(pattern.indicators) :
        \E j \in 1..Len(cluster.fraudIndicators) :
            cluster.fraudIndicators[j] = pattern.indicators[i]}

\* all four providers share one business address and bill on the same days
SharedFacilityScenario ==
    /\ Evaluated("analyzeProviderNetwork")
    /\ \A pair \in ProviderPairs : fnArgs.kinds[pair] = "facility"

\* C26: a fraud ring is emitted for a returned cluster and an archetype
\* exactly when the cluster has at least the archetype's minimum number of
\* providers and at least 2 of the archetype's indicators are among the
\* cluster's fraud indicators; and the match happens: a returned cluster of
\* 4 providers sharing one business address and billing on the same days is
\* reported as SHARED_FACILITY_SCHEME with confidence 85 and the cluster's
\* total billed amount.
C26_FraudRingMatching ==
    Evaluated("analyzeProviderNetwork") =>
        /\ \A k \in 1..Len(fnResult[1].suspiciousClusters) :
           \A n \in 1..Len(FRAUD_RING_PATTERNS) :
              LET cluster == fnResult[1].suspiciousClusters[k]
                  pattern == FRAUD_RING_PATTERNS[n]
              IN (\E r \in 1..Len(fnResult[1].fraudRings) :
                     /\ fnResult[1].fraudRings[r].pattern = pattern.name
                     /\ fnResult[1].fraudRings[r].providers =
                           [i \in 1..Len(cluster.providers) |-> cluster.providers[i].id])
                 <=> (/\ Len(cluster.providers) >= pattern.minProviders
                      /\ Cardinality(NamedIndicatorsPresent(cluster, pattern)) >= 2)
        /\ SharedFacilityScenario =>
              /\ Len(fnResult[1].suspiciousClusters) = 1
              /\ Len(fnResult[1].suspiciousClusters[1].providers) = 4
              /\ \E r \in 1..Len(fnResult[1].fraudRings) :
                    /\ fnResult[1].fraudRings[r].pattern = "SHARED_FACILITY_SCHEME"
                    /\ fnResult[1].fraudRings[r].confidence = 85
                    /\ fnResult[1].fraudRings[r].totalAmount =
                          fnResult[1].suspiciousClusters[1].totalBilled

(***************************************************************************)
(* Properties of the real-time scoring                                     *)
(***************************************************************************)
\* min(100, 10 + tier + min(25, 3 x items) + 10 x unusual codes + 20 x
\* bundling risk) with the tier 30 above 5000, 15 above 2000, 0 otherwise
TieredQuickScore(characteristics) ==
    MathMin(Whole(100),
            Plus(Plus(Plus(Whole(10 + TieredAmountRisk(characteristics.totalAmount)),
                           MathMin(Whole(25), Times(Whole(3), characteristics.complexity))),
                      Whole(10 * Len(characteristics.unusualCodes))),
                 Times(Whole(20), characteristics.bundlingRisk)))

\* C27: for every submission the real-time score is min(100, 10 + tier +
\* min(25, 3 x line items) + 10 x unusual codes + 20 x bundling risk), the
\* tier being +30 for a total above 5000, +15 for a total above 2000 but not
\* above 5000 and 0 otherwise, and the processing recommendation is
\* AUTO_APPROVE exactly when the risk level is LOW.
C27_RealTimeScore ==
    Evaluated("calculateRealTimeRisk") =>
        /\ SameNumber(fnResult[1].riskScore,
                      TieredQuickScore(extractRealTimeRiskFactors(
                                           fnArgs.claimSubmission).claimCharacteristics))
        /\ (fnResult[1].processingRecommendation = "AUTO_APPROVE")
              <=> (fnResult[1].riskLevel = "LOW")

(***************************************************************************)
(* Properties of processClaim calls running side by side                   *)
(***************************************************************************)
BothEnded == calls # NoCalls /\ \A p \in DOMAIN calls : calls[p].pc \in {"returned", "rejected"}

\* the duplicate query of call p returned the claim of call q
FoundOther(p, q) ==
    /\ calls[p].duplicates # None
    /\ calls[q].claim # None
    /\ calls[q].claim[1].id \in calls[p].duplicates[1]

\* the claims of both calls were stored when call p queried its duplicates
BothStoredAtQuery(p) ==
    /\ calls[p].duplicates # None
    /\ \A q \in DOMAIN calls :
          calls[q].claim # None /\ calls[q].claim[1].id <= calls[p].rowsAtQuery

\* C28: when two submissions with the same provider, patient, service date
\* and billed amount are processed side by side, then under every
\* interleaving of the steps of the two calls at least one of the two claims
\* is found to be a duplicate of the other once both calls have ended, and
\* both are found when both claims were stored at the time of both
\* duplicate queries.
C28_ParallelDuplicatesFound ==
    BothEnded =>
        /\ FoundOther(1, 2) \/ FoundOther(2, 1)
        /\ (BothStoredAtQuery(1) /\ BothStoredAtQuery(2)) =>
              (FoundOther(1, 2) /\ FoundOther(2, 1))

(***************************************************************************)
(* Properties of the phantom-billing detection result                      *)
(***************************************************************************)
DetectedNames == {fnResult[1].patterns[i].pattern : i \in 1..Len(fnResult[1].patterns)}

\* C29: the patient analysis raises at most two suspicious patient patterns
\* (high new-patient ratio, concentration of very elderly patients), so
\* PATTERN_ANOMALY, which needs more than 2, is in the patterns of no
\* detection result and the confidence is never brought down to 70 by it.
C29_PatternAnomalyNeverMatched ==
    Evaluated("detectPhantomBilling") =>
        /\ Len(fnResult[1].patientAnalysis.suspiciousPatientPatterns) <= 2
        /\ "PATTERN_ANOMALY" \notin DetectedNames
        /\ ~SameNumber(fnResult[1].confidence, Whole(70))

\* C29 witness: both suspicious patient patterns have been raised, other
\* patterns are matched, and the result is without PATTERN_ANOMALY.
C29_Witness ==
    /\ Evaluated("detectPhantomBilling")
    /\ Len(fnResult[1].patientAnalysis.suspiciousPatientPatterns) = 2
    /\ "PATIENT_IDENTITY_FRAUD" \in DetectedNames
    /\ "PATTERN_ANOMALY" \notin DetectedNames

(***************************************************************************)
(* Properties of the rate limiter                                          *)
(***************************************************************************)
\* the key has an entry whose window has not ended
InWindow(key) == key \in DOMAIN rateLimitStore /\ rateLimitStore[key].resetTime >= now

\* a step that is a call of a limiter
LimiterCalled == limited'.calls = limited.calls + 1

\* what the call of this step did
Called == limited'.last[1]

\* C30: for every limiter made by createRateLimit and every key (client id
\* and path): within one window of the key's entry at most maxRequests
\* calls of the limiter return success; a call for a key whose count has
\* reached maxRequests before resetTime is rejected with status 429 and
\* leaves the count as it is; the entries of the other keys whose windows
\* have not ended are left as they are; and the first call for a key after
\* its resetTime (or the first ever) starts a new window with count 1.
C30_WindowBound ==
    [][LimiterCalled =>
          /\ \A k \in DOMAIN limited'.successes : \A config \in RateLimitConfigs :
                limited'.successes[k][config.name] <= config.maxRequests
          /\ (InWindow(Called.key)
                /\ rateLimitStore[Called.key].count >= Called.config.maxRequests) =>
                   /\ ~Called.success
                   /\ Called.status = 429
                   /\ rateLimitStore'[Called.key] = rateLimitStore[Called.key]
          /\ \A k \in DOMAIN rateLimitStore :
                (k # Called.key /\ InWindow(k)) =>
                   k \in DOMAIN rateLimitStore' /\ rateLimitStore'[k] = rateLimitStore[k]
          /\ ~InWindow(Called.key) =>
                /\ Called.success
                /\ rateLimitStore'[Called.key] =
                       [count |-> 1, resetTime |-> now + Called.config.windowMs]]_vars

\* C30 witness: a call has been rejected with 429 for a key whose limiter
\* had returned success maxRequests times in the window, while another key
\* has an entry of its own.
C30_Witness ==
    /\ limited.last # None
    /\ limited.last[1].status = 429
    /\ limited.successes[limited.last[1].key][limited.last[1].config.name]
          = limited.last[1].config.maxRequests
    /\ \E k \in DOMAIN rateLimitStore : k # limited.last[1].key

====
